---- MODULE Spec2Model ----
(***************************************************************************)
(* wctx: the window-context daemon.                                        *)
(*                                                                         *)
(*   - types.rs        WindowDict, its enumerations, DictMap conversions   *)
(*   - service.rs      the org.wctx.Windows object (two cached records)    *)
(*   - debouncer.rs    Debouncer<T>: the background task and its channels  *)
(*   - providers/x11.rs  the X11 tracker's event loop                      *)
(*                                                                         *)
(* Strings whose characters the code inspects (pid digits, WM_CLASS bytes, *)
(* enum names, ids) are sequences of one-character strings; keys, contexts *)
(* and enum variants, which the code only compares, are TLA+ strings.      *)
(***************************************************************************)
EXTENDS Integers, Sequences, FiniteSets, TLC

VARIABLES
    active_window,    \* Windows.active_window  (service.rs:41), a WindowDict
    pointer_window,   \* Windows.pointer_window (service.rs:42), a WindowDict
    reply,            \* the last method invocation of the Windows object
    ncalls,           \* number of method invocations made by the test client
    pre_active,       \* history: active_window before the client's last invocation
    pre_pointer,      \* history: pointer_window before the client's last invocation
    deb,              \* the two Debouncer instances of the tracker (x11.rs:49-50)
    npush,            \* producer: number of values pushed so far
    sincePush,        \* history: ticks since the producer's last push, capped at Delay
    bursts,           \* history: the last value of every completed burst
    yielded,          \* history: the values next() has returned
    x_active,         \* X11.active_window  (x11.rs:208), an XWindow
    x_pointer,        \* X11.pointer_window (x11.rs:209), an XWindow
    displays,         \* X11.displays (x11.rs:207)
    status,           \* where serve() of the tracker is: starting, running, failed, ...
    conn,             \* the X connection: "up", or "down" once it is broken
    ev,               \* the last iteration of the event loop: the branch taken,
                      \* the X requests it sent, the service calls it made
    quiet,            \* history: ticks since the last push into the Active debouncer
    burst,            \* history: the events of the latest burst into the Active
                      \* debouncer, in the order they were pushed
    owed,             \* history: last events of completed Active bursts, not yet
                      \* returned by active_move_debouncer.next()
    fn_in,            \* the arguments a function of the program is applied to
    fn_out,           \* what the function returned for fn_in, once it was applied
    nobserved,        \* history: number of X events the loop has observed
    pushed_at,        \* history: per debouncer, the events pushed into it, each
                      \* with the number of the observation that pushed it
    caused_by,        \* history: per context, the number of the observation that
                      \* caused the latest update emitted for it (0: startup)
    svc_call,         \* the method call the Windows object is executing, with the
                      \* statements it has still to run
    svc_obs,          \* history: what readers and signal receivers have seen of
                      \* the two records since the call began
    hs,               \* the daemon at startup: the service task, the provider
                      \* task, the one-shot channel between them and run()
    lp,               \* the event loop of the tracker, one await at a time: the
                      \* handler in progress and the events waiting at the select!
    dh                \* the handle of the Active debouncer: its two channel ends,
                      \* and history: what the task has handed to output_tx.send

svc_vars == <<active_window, pointer_window, reply>>

client_vars == <<ncalls, pre_active, pre_pointer>>

producer_vars == <<npush, sincePush, bursts, yielded>>

x_vars == <<x_active, x_pointer, displays, status, conn, ev>>

geo_vars == <<quiet, burst, owed>>

fn_vars == <<fn_in, fn_out>>

order_vars == <<nobserved, pushed_at, caused_by>>

atom_vars == <<svc_call, svc_obs>>

aux_vars == <<fn_vars, order_vars, atom_vars, hs, lp, dh>>

vars == <<active_window, pointer_window, reply, ncalls, pre_active, pre_pointer,
          deb, npush, sincePush, bursts, yielded,
          x_active, x_pointer, displays, status, conn, ev, quiet, burst, owed,
          fn_in, fn_out, nobserved, pushed_at, caused_by, svc_call, svc_obs, hs, lp, dh>>

\* No function is under examination.
NoArguments == [fn |-> "none"]

NotApplied == [done |-> FALSE]

FnIdle ==
    /\ fn_in = NoArguments
    /\ fn_out = NotApplied

\* No X event has been observed; the records are as startup leaves them.
OrderInit ==
    /\ nobserved = 0
    /\ pushed_at = [active |-> <<>>, pointer |-> <<>>]
    /\ caused_by = [active |-> 0, pointer |-> 0]

\* The Windows object executes no call.
NoCallRunning ==
    [method |-> "none", context |-> "both", prop |-> "ID", value |-> <<>>,
     dict |-> <<>>, todo |-> <<>>, result |-> "ok", old_active |-> <<>>,
     old_pointer |-> <<>>]

AtomInit ==
    /\ svc_call = NoCallRunning
    /\ svc_obs = {}

\* daemon::run has spawned the two tasks (daemon.rs:16-19); neither has run.
HsInit ==
    hs = [svc |-> "start", svc_err |-> "none",
          bus |-> [name |-> FALSE, objects |-> {}],
          chan |-> "open", provider |-> "undetected", prov |-> "detect",
          writes |-> 0, status |-> "", daemon |-> "running"]

\* The loop has not started; nothing waits.
LoopInit ==
    lp = [running |-> <<>>, waiting |-> <<>>, dout |-> <<>>, arrived |-> 0, accepted |-> 0,
          seen |-> <<>>]

\* The Debouncer is held: both ends of its channels are open.
HandleInit == dh = [tx |-> "held", rx |-> "held", sent |-> <<>>, cut |-> FALSE]

AuxIdle == FnIdle /\ OrderInit /\ AtomInit /\ HsInit /\ LoopInit /\ HandleInit

----------------------------------------------------------------------------
(* types.rs: enumerations and their string forms                           *)

WindowContext == {"both", "active", "pointer"}

WindowProp == {"ID", "Name", "Class", "PID", "Title", "Type", "Role", "State", "Display"}

WindowType == {"None", "Normal", "Combo", "Desktop", "Dialog", "DND", "Dock",
               "DropdownMenu", "Menu", "Notification", "PopupMenu", "Splash",
               "Toolbar", "Tooltip", "Utility", "Override"}

WindowState == {"None", "Normal", "Maximized", "Fullscreen"}

\* strum::Display of a WindowType: SCREAMING_SNAKE_CASE, "" for None.
WindowTypeToString(t) ==
    CASE t = "None"         -> <<>>
      [] t = "Normal"       -> <<"N","O","R","M","A","L">>
      [] t = "Combo"        -> <<"C","O","M","B","O">>
      [] t = "Desktop"      -> <<"D","E","S","K","T","O","P">>
      [] t = "Dialog"       -> <<"D","I","A","L","O","G">>
      [] t = "DND"          -> <<"D","N","D">>
      [] t = "Dock"         -> <<"D","O","C","K">>
      [] t = "DropdownMenu" -> <<"D","R","O","P","D","O","W","N","_","M","E","N","U">>
      [] t = "Menu"         -> <<"M","E","N","U">>
      [] t = "Notification" -> <<"N","O","T","I","F","I","C","A","T","I","O","N">>
      [] t = "PopupMenu"    -> <<"P","O","P","U","P","_","M","E","N","U">>
      [] t = "Splash"       -> <<"S","P","L","A","S","H">>
      [] t = "Toolbar"      -> <<"T","O","O","L","B","A","R">>
      [] t = "Tooltip"      -> <<"T","O","O","L","T","I","P">>
      [] t = "Utility"      -> <<"U","T","I","L","I","T","Y">>
      [] t = "Override"     -> <<"O","V","E","R","R","I","D","E">>

\* strum::Display of a WindowState.
WindowStateToString(s) ==
    CASE s = "None"       -> <<>>
      [] s = "Normal"     -> <<"N","O","R","M","A","L">>
      [] s = "Maximized"  -> <<"M","A","X","I","M","I","Z","E","D">>
      [] s = "Fullscreen" -> <<"F","U","L","L","S","C","R","E","E","N">>

\* strum::EnumString: the variant whose string form is str, or an error.
WindowTypeFromStr(str) ==
    IF \E t \in WindowType : WindowTypeToString(t) = str
    THEN [ok |-> TRUE,  v |-> CHOOSE t \in WindowType : WindowTypeToString(t) = str]
    ELSE [ok |-> FALSE, v |-> "None"]

WindowStateFromStr(str) ==
    IF \E s \in WindowState : WindowStateToString(s) = str
    THEN [ok |-> TRUE,  v |-> CHOOSE s \in WindowState : WindowStateToString(s) = str]
    ELSE [ok |-> FALSE, v |-> "None"]

\* serde(rename_all = "lowercase") of WindowProp: the wire name of a key.
WindowPropFromWire(key) ==
    CASE key = "id"      -> "ID"
      [] key = "name"    -> "Name"
      [] key = "class"   -> "Class"
      [] key = "pid"     -> "PID"
      [] key = "title"   -> "Title"
      [] key = "type"    -> "Type"
      [] key = "role"    -> "Role"
      [] key = "state"   -> "State"
      [] key = "display" -> "Display"
      [] OTHER           -> "Unknown"

DictKeys == {"id", "name", "class", "pid", "title", "type", "role", "state", "display"}

----------------------------------------------------------------------------
(* types.rs: integer parsing                                               *)

DigitChars == <<"0","1","2","3","4","5","6","7","8","9">>

IsDigit(c) == \E i \in 1..10 : DigitChars[i] = c

DigitValue(c) == (CHOOSE i \in 1..10 : DigitChars[i] = c) - 1

RECURSIVE ParseDigits(_, _)
ParseDigits(s, acc) ==
    IF s = <<>> THEN acc ELSE ParseDigits(Tail(s), acc * 10 + DigitValue(Head(s)))

\* str::parse::<u32>: an optional leading '+', then one or more decimal digits.
ParseU32(s) ==
    LET body == IF s # <<>> /\ Head(s) = "+" THEN Tail(s) ELSE s
    IN  IF body # <<>> /\ \A i \in 1..Len(body) : IsDigit(body[i])
        THEN [ok |-> TRUE,  v |-> ParseDigits(body, 0)]
        ELSE [ok |-> FALSE, v |-> 0]

\* parse_int_string: the empty string is 0.
parse_int_string(value) ==
    IF value = <<>> THEN [ok |-> TRUE, v |-> 0] ELSE ParseU32(value)

----------------------------------------------------------------------------
(* types.rs: WindowDict                                                    *)

WindowDictNew(id, name, class, pid, title, type, role, state, display) ==
    [id |-> id, name |-> name, class |-> class, pid |-> pid, title |-> title,
     type |-> type, role |-> role, state |-> state, display |-> display]

WindowDictDefault ==
    WindowDictNew(<<>>, <<>>, <<>>, 0, <<>>, "None", <<>>, "None", <<>>)

\* zvariant values: a string, an unsigned or a signed 32-bit integer.
StrValue(s) == [t |-> "s", v |-> s]

U32Value(n) == [t |-> "u", v |-> n]

I32Value(n) == [t |-> "i", v |-> n]

\* WindowDict::as_map / Into<DictMap>: the nine-key property bag.
WindowDictAsMap(w) ==
    [k \in DictKeys |->
        CASE k = "id"      -> StrValue(w.id)
          [] k = "name"    -> StrValue(w.name)
          [] k = "class"   -> StrValue(w.class)
          [] k = "pid"     -> U32Value(w.pid)
          [] k = "title"   -> StrValue(w.title)
          [] k = "type"    -> StrValue(WindowTypeToString(w.type))
          [] k = "role"    -> StrValue(w.role)
          [] k = "state"   -> StrValue(WindowStateToString(w.state))
          [] k = "display" -> StrValue(w.display)]

\* ValueExt<String>::extract
ExtractString(map, key) ==
    IF key \in DOMAIN map
    THEN IF map[key].t = "s" THEN [ok |-> TRUE, v |-> map[key].v]
                             ELSE [ok |-> FALSE, v |-> <<>>]
    ELSE [ok |-> TRUE, v |-> <<>>]

\* ValueExt<u32>::extract: a signed value saturates at 0.
ExtractU32(map, key) ==
    IF key \in DOMAIN map
    THEN CASE map[key].t = "i" -> [ok |-> TRUE, v |-> IF map[key].v < 0 THEN 0 ELSE map[key].v]
           [] map[key].t = "u" -> [ok |-> TRUE, v |-> map[key].v]
           [] OTHER            -> [ok |-> FALSE, v |-> 0]
    ELSE [ok |-> TRUE, v |-> 0]

\* impl_from_str_enum!(WindowType)
ExtractType(map, key) ==
    LET s == ExtractString(map, key)
    IN  IF s.ok THEN WindowTypeFromStr(s.v) ELSE [ok |-> FALSE, v |-> "None"]

\* impl_from_str_enum!(WindowState)
ExtractState(map, key) ==
    LET s == ExtractString(map, key)
    IN  IF s.ok THEN WindowStateFromStr(s.v) ELSE [ok |-> FALSE, v |-> "None"]

\* A slip: a key the record does not have is read into the role.
WindowDictTryFromReadsUnknown(map) ==
    LET id      == ExtractString(map, "id")
        name    == ExtractString(map, "name")
        class   == ExtractString(map, "class")
        pid     == ExtractU32(map, "pid")
        title   == ExtractString(map, "title")
        type    == ExtractType(map, "type")
        role    == ExtractString(map, IF "bogus" \in DOMAIN map THEN "bogus" ELSE "role")
        state   == ExtractState(map, "state")
        display == ExtractString(map, "display")
    IN  IF id.ok /\ name.ok /\ class.ok /\ pid.ok /\ title.ok /\ type.ok
           /\ role.ok /\ state.ok /\ display.ok
        THEN [ok |-> TRUE,
              w  |-> WindowDictNew(id.v, name.v, class.v, pid.v, title.v, type.v,
                                   role.v, state.v, display.v)]
        ELSE [ok |-> FALSE, w |-> WindowDictDefault]

\* TryFrom<DictMap> for WindowDict: the first failing extract is the error.
WindowDictTryFrom(map) ==
    LET id      == ExtractString(map, "id")
        name    == ExtractString(map, "name")
        class   == ExtractString(map, "class")
        pid     == ExtractU32(map, "pid")
        title   == ExtractString(map, "title")
        type    == ExtractType(map, "type")
        role    == ExtractString(map, "role")
        state   == ExtractState(map, "state")
        display == ExtractString(map, "display")
    IN  IF id.ok /\ name.ok /\ class.ok /\ pid.ok /\ title.ok /\ type.ok
           /\ role.ok /\ state.ok /\ display.ok
        THEN [ok |-> TRUE,
              w  |-> WindowDictNew(id.v, name.v, class.v, pid.v, title.v, type.v,
                                   role.v, state.v, display.v)]
        ELSE [ok |-> FALSE, w |-> WindowDictDefault]

\* A validation slip: the field is reset before the value is rejected.
WindowDictUpdateResetsOnError(w, key, value) ==
    CASE key = "ID"      -> [ok |-> TRUE, w |-> [w EXCEPT !.id = value]]
      [] key = "Name"    -> [ok |-> TRUE, w |-> [w EXCEPT !.name = value]]
      [] key = "Class"   -> [ok |-> TRUE, w |-> [w EXCEPT !.class = value]]
      [] key = "PID"     -> LET p == parse_int_string(value)
                            IN  [ok |-> p.ok, w |-> [w EXCEPT !.pid = p.v]]
      [] key = "Title"   -> [ok |-> TRUE, w |-> [w EXCEPT !.title = value]]
      [] key = "Type"    -> LET t == WindowTypeFromStr(value)
                            IN  [ok |-> t.ok, w |-> [w EXCEPT !.type = t.v]]
      [] key = "Role"    -> [ok |-> TRUE, w |-> [w EXCEPT !.role = value]]
      [] key = "State"   -> LET s == WindowStateFromStr(value)
                            IN  [ok |-> s.ok, w |-> [w EXCEPT !.state = s.v]]
      [] key = "Display" -> [ok |-> TRUE, w |-> [w EXCEPT !.display = value]]

\* A copy-paste slip: the role arm writes the title as well.
WindowDictUpdateRoleClobbersTitle(w, key, value) ==
    CASE key = "ID"      -> [ok |-> TRUE, w |-> [w EXCEPT !.id = value]]
      [] key = "Name"    -> [ok |-> TRUE, w |-> [w EXCEPT !.name = value]]
      [] key = "Class"   -> [ok |-> TRUE, w |-> [w EXCEPT !.class = value]]
      [] key = "PID"     -> LET p == parse_int_string(value)
                            IN  IF p.ok THEN [ok |-> TRUE, w |-> [w EXCEPT !.pid = p.v]]
                                        ELSE [ok |-> FALSE, w |-> w]
      [] key = "Title"   -> [ok |-> TRUE, w |-> [w EXCEPT !.title = value]]
      [] key = "Type"    -> LET t == WindowTypeFromStr(value)
                            IN  IF t.ok THEN [ok |-> TRUE, w |-> [w EXCEPT !.type = t.v]]
                                        ELSE [ok |-> FALSE, w |-> w]
      [] key = "Role"    -> [ok |-> TRUE, w |-> [w EXCEPT !.role = value, !.title = value]]
      [] key = "State"   -> LET s == WindowStateFromStr(value)
                            IN  IF s.ok THEN [ok |-> TRUE, w |-> [w EXCEPT !.state = s.v]]
                                        ELSE [ok |-> FALSE, w |-> w]
      [] key = "Display" -> [ok |-> TRUE, w |-> [w EXCEPT !.display = value]]

\* WindowDict::update(key: WindowProp, value): the record after the call and
\* whether it returned Ok; `?` leaves the field as it was on an error.
WindowDictUpdate(w, key, value) ==
    CASE key = "ID"      -> [ok |-> TRUE, w |-> [w EXCEPT !.id = value]]
      [] key = "Name"    -> [ok |-> TRUE, w |-> [w EXCEPT !.name = value]]
      [] key = "Class"   -> [ok |-> TRUE, w |-> [w EXCEPT !.class = value]]
      [] key = "PID"     -> LET p == parse_int_string(value)
                            IN  IF p.ok THEN [ok |-> TRUE, w |-> [w EXCEPT !.pid = p.v]]
                                        ELSE [ok |-> FALSE, w |-> w]
      [] key = "Title"   -> [ok |-> TRUE, w |-> [w EXCEPT !.title = value]]
      [] key = "Type"    -> LET t == WindowTypeFromStr(value)
                            IN  IF t.ok THEN [ok |-> TRUE, w |-> [w EXCEPT !.type = t.v]]
                                        ELSE [ok |-> FALSE, w |-> w]
      [] key = "Role"    -> [ok |-> TRUE, w |-> [w EXCEPT !.role = value]]
      [] key = "State"   -> LET s == WindowStateFromStr(value)
                            IN  IF s.ok THEN [ok |-> TRUE, w |-> [w EXCEPT !.state = s.v]]
                                        ELSE [ok |-> FALSE, w |-> w]
      [] key = "Display" -> [ok |-> TRUE, w |-> [w EXCEPT !.display = value]]

----------------------------------------------------------------------------
(* service.rs: the org.wctx.Windows object                                 *)

STR_NORMAL == <<"N","O","R","M","A","L">>

STR_FULLSCREEN == <<"F","U","L","L","S","C","R","E","E","N">>

NoReply ==
    [method |-> "none", context |-> "both", key |-> "", value |-> <<>>,
     window |-> WindowDictAsMap(WindowDictDefault), ok |-> TRUE, signals |-> <<>>]

\* serve: both records start at WindowDict::default().
ServiceInit ==
    /\ active_window = WindowDictDefault
    /\ pointer_window = WindowDictDefault
    /\ reply = NoReply

\* The test client of SpecSvc has made no call yet.
ClientInit ==
    /\ ncalls = 0
    /\ pre_active = WindowDictDefault
    /\ pre_pointer = WindowDictDefault

\* The change signals a successful call emits, in the order it emits them.
SignalsFor(context) ==
    CASE context = "both"    -> <<"ActiveWindow", "PointerWindow">>
      [] context = "active"  -> <<"ActiveWindow">>
      [] context = "pointer" -> <<"PointerWindow">>

\* A slip in the Both arm: the second assignment targets the active record again.
SetWindowBothMissesPointer(context, window) ==
    LET dict == WindowDictTryFrom(window)
        call == [method |-> "SetWindow", context |-> context, key |-> "",
                 value |-> <<>>, window |-> window, ok |-> TRUE, signals |-> <<>>]
    IN  IF ~dict.ok
        THEN /\ reply' = [call EXCEPT !.ok = FALSE, !.signals = <<>>]
             /\ UNCHANGED <<active_window, pointer_window>>
        ELSE /\ active_window' = IF context \in {"both", "active"} THEN dict.w ELSE active_window
             /\ pointer_window' = IF context = "pointer" THEN dict.w ELSE pointer_window
             /\ reply' = [call EXCEPT !.ok = TRUE, !.signals = SignalsFor(context)]

\* A slip: the record is validated only after the named records were reset.
SetWindowMutatesFirst(context, window) ==
    LET dict == WindowDictTryFrom(window)
        call == [method |-> "SetWindow", context |-> context, key |-> "",
                 value |-> <<>>, window |-> window, ok |-> TRUE, signals |-> <<>>]
        a    == IF dict.ok THEN dict.w ELSE WindowDictDefault
    IN  /\ active_window' = IF context \in {"both", "active"} THEN a ELSE active_window
        /\ pointer_window' = IF context \in {"both", "pointer"} THEN a ELSE pointer_window
        /\ reply' = IF dict.ok
                    THEN [call EXCEPT !.ok = TRUE, !.signals = SignalsFor(context)]
                    ELSE [call EXCEPT !.ok = FALSE, !.signals = <<>>]

\* Windows::set_window
SetWindow(context, window) ==
    LET dict == WindowDictTryFrom(window)
        call == [method |-> "SetWindow", context |-> context, key |-> "",
                 value |-> <<>>, window |-> window, ok |-> TRUE, signals |-> <<>>]
    IN  IF ~dict.ok
        THEN /\ reply' = [call EXCEPT !.ok = FALSE, !.signals = <<>>]
             /\ UNCHANGED <<active_window, pointer_window>>
        ELSE /\ active_window' = IF context \in {"both", "active"} THEN dict.w ELSE active_window
             /\ pointer_window' = IF context \in {"both", "pointer"} THEN dict.w ELSE pointer_window
             /\ reply' = [call EXCEPT !.ok = TRUE, !.signals = SignalsFor(context)]

\* Windows::update_window. The key arrives by its wire name; a name that is
\* no WindowProp is refused before any record is touched. In the Both arm the
\* active record is updated first and stays updated if the pointer update
\* then fails.
UpdateWindow(context, key, value) ==
    LET prop == WindowPropFromWire(key)
        call == [method |-> "UpdateWindow", context |-> context, key |-> key,
                 value |-> value, window |-> WindowDictAsMap(WindowDictDefault),
                 ok |-> TRUE, signals |-> <<>>]
        fail == [call EXCEPT !.ok = FALSE, !.signals = <<>>]
        done == [call EXCEPT !.ok = TRUE, !.signals = SignalsFor(context)]
    IN  IF prop = "Unknown"
        THEN /\ reply' = fail
             /\ UNCHANGED <<active_window, pointer_window>>
        ELSE LET a == WindowDictUpdate(active_window, prop, value)
                 p == WindowDictUpdate(pointer_window, prop, value)
             IN  CASE context = "both" ->
                        /\ active_window' = a.w
                        /\ pointer_window' = IF a.ok THEN p.w ELSE pointer_window
                        /\ reply' = IF a.ok /\ p.ok THEN done ELSE fail
                   [] context = "active" ->
                        /\ active_window' = a.w
                        /\ pointer_window' = pointer_window
                        /\ reply' = IF a.ok THEN done ELSE fail
                   [] context = "pointer" ->
                        /\ active_window' = active_window
                        /\ pointer_window' = p.w
                        /\ reply' = IF p.ok THEN done ELSE fail

----------------------------------------------------------------------------
(* debouncer.rs: Debouncer<T>                                              *)
(*                                                                         *)
(* A debouncer is its input channel, the background task (blocked on the   *)
(* input at line 27, or inside the select! loop of lines 35-54 with `last` *)
(* and the pinned timer) and its output channel. Time is counted in ticks; *)
(* `timer` is the number of ticks until the sleep completes. The task is   *)
(* taken to react within the tick in which it is woken: time does not pass *)
(* while it has a message to receive or an expired timer to handle, and a  *)
(* push made in the tick in which the timer expires comes after the expiry.*)

Delay == 2

MaxQueue == 2

DebIds == {"active", "pointer"}

DebouncerNew ==
    [input |-> <<>>, pc |-> "idle", last |-> <<>>, timer |-> 0, output |-> <<>>]

DebInit == deb = [c \in DebIds |-> DebouncerNew]

\* The task has something to do now.
TaskReady(d) ==
    \/ d.input # <<>>
    \/ d.pc = "armed" /\ d.timer = 0

\* Debouncer::push: send on the unbounded input channel.
DebPush(c, value) ==
    /\ Len(deb[c].input) < MaxQueue
    /\ ~(deb[c].pc = "armed" /\ deb[c].timer = 0)
    /\ deb' = [deb EXCEPT ![c].input = Append(@, value)]

\* Line 27: the first value of a cycle arrives; line 31 starts the timer.
DebRecvFirst(c) ==
    /\ deb[c].pc = "idle"
    /\ deb[c].input # <<>>
    /\ deb' = [deb EXCEPT ![c].last = <<Head(deb[c].input)>>,
                          ![c].input = Tail(@),
                          ![c].timer = Delay,
                          ![c].pc = "armed"]

\* A slip: the new value is kept but the timer is not reset.
DebRecvMoreNoReset(c) ==
    /\ deb[c].pc = "armed"
    /\ deb[c].input # <<>>
    /\ deb' = [deb EXCEPT ![c].last = <<Head(deb[c].input)>>,
                          ![c].input = Tail(@)]

\* Lines 38-43: a value arrives before the timer fires; it becomes `last`
\* and the timer is reset to now + delay.
DebRecvMore(c) ==
    /\ deb[c].pc = "armed"
    /\ deb[c].input # <<>>
    /\ deb' = [deb EXCEPT ![c].last = <<Head(deb[c].input)>>,
                          ![c].input = Tail(@),
                          ![c].timer = Delay]

\* Lines 50-58: the timer fires; `last` is sent on the output channel and the
\* task blocks on the input again.
DebTimerFire(c) ==
    /\ deb[c].pc = "armed"
    /\ deb[c].timer = 0
    /\ Len(deb[c].output) < MaxQueue
    /\ deb' = [deb EXCEPT ![c].output = Append(@, deb[c].last[1]),
                          ![c].last = <<>>,
                          ![c].pc = "idle"]

\* One tick of the clock: every running timer comes one tick closer.
DebTick ==
    /\ \A c \in DebIds : ~TaskReady(deb[c])
    /\ deb' = [c \in DebIds |->
                 IF deb[c].pc = "armed" THEN [deb[c] EXCEPT !.timer = @ - 1] ELSE deb[c]]

\* Debouncer::next completing: the head of the output channel.
DebNext(c) ==
    /\ deb[c].output # <<>>
    /\ deb' = [deb EXCEPT ![c].output = Tail(@)]

----------------------------------------------------------------------------
(* providers/x11.rs: the X server the tracker talks to                     *)
(*                                                                         *)
(* The window tree and the properties that identify a window are fixed;    *)
(* the properties that change while the tracker runs (title, state,        *)
(* geometry) are whatever the server answers at the time of the request.   *)

\* Window 1 is a frame without WM_CLASS holding a class-less helper (2) and
\* a client (3); 4 is a client that is its own top-level; 5 is a top-level
\* with no WM_CLASS anywhere below it. 0 is None.
Windows == {1, 2, 3, 4, 5}

\* query_tree(win).children
Children(w) ==
    CASE w = 1 -> <<2, 3>>
      [] OTHER -> <<>>

NUL == "\\0"

\* The WM_CLASS property: instance NUL class NUL; empty when absent.
WmClassOf(w) ==
    CASE w = 3 -> <<"F","x",NUL,"F","i","r","e"," ","F","o","x",NUL>>
      [] w = 4 -> <<"x","t","e","r","m",NUL,"X","T","e","r","m",NUL>>
      [] OTHER -> <<>>

\* _NET_WM_PID; 0 stands for an absent property.
PidOf(w) == IF w = 3 THEN 42 ELSE 0

\* WM_WINDOW_ROLE
RoleOf(w) == IF w = 3 THEN <<"b","r","o","w","s","e","r">> ELSE <<>>

\* The first atom of _NET_WM_WINDOW_TYPE: "absent", or the atom's name.
WindowTypeAtomOf(w) ==
    CASE w = 3 -> "_NET_WM_WINDOW_TYPE_NORMAL"
      [] w = 4 -> "_KDE_NET_WM_WINDOW_TYPE_OVERRIDE"
      [] OTHER -> "absent"

\* The answers the tracker is run against.
TrkTitles == { <<>>, <<"A">> }

TrkStateReplies ==
    { [ok |-> FALSE, atoms |-> {}], [ok |-> TRUE, atoms |-> {"FULLSCREEN"}] }

TrkGeometries == { [x |-> 4, y |-> 1, width |-> 2, height |-> 2] }

TrkGeometryReplies == { [ok |-> TRUE, g |-> g] : g \in TrkGeometries }

XDisplay(name, x, y, w, h) == [name |-> name, x |-> x, y |-> y, w |-> w, h |-> h]

STR_DP1 == <<"D","P","-","1">>

STR_DP2 == <<"D","P","-","2">>

STR_HDMI1 == <<"H","D","M","I","-","1">>

\* The monitor layouts randr_get_monitors may report.
TwoMonitors == << XDisplay(STR_DP1, 0, 0, 4, 4), XDisplay(STR_DP2, 4, 0, 4, 4) >>

OneMonitor == << XDisplay(STR_HDMI1, 0, 0, 8, 4) >>

MonitorLayouts == { TwoMonitors, OneMonitor }

----------------------------------------------------------------------------
(* providers/x11.rs: XWindow and the attribute queries                     *)

XWindowNew(win_match, top_id, pid, title, type, role, state, display) ==
    [id |-> win_match.id, top_id |-> top_id, name |-> win_match.name,
     class |-> win_match.class, pid |-> pid, title |-> title, type |-> type,
     role |-> role, state |-> state, display |-> display]

XWindowDefault ==
    [id |-> 0, top_id |-> 0, name |-> <<>>, class |-> <<>>, pid |-> 0, title |-> <<>>,
     type |-> "None", role |-> <<>>, state |-> "None", display |-> <<>>]

RECURSIVE U32ToString(_)
\* u32::to_string: the decimal digits.
U32ToString(n) ==
    IF n < 10 THEN <<DigitChars[n + 1]>>
    ELSE U32ToString(n \div 10) \o <<DigitChars[(n % 10) + 1]>>

\* XWindow::as_map
XWindowAsMap(w) ==
    WindowDictAsMap(WindowDictNew(U32ToString(w.id), w.name, w.class, w.pid, w.title,
                                  w.type, w.role, w.state, w.display))

\* XWindow::update: the record after the update and the (key, value) pair
\* handed to the service; the key by its wire name.
XWindowUpdate(w, prop) ==
    CASE prop.kind = "Title" ->
            [w |-> [w EXCEPT !.title = prop.value], key |-> "title", value |-> prop.value]
      [] prop.kind = "State" ->
            [w |-> [w EXCEPT !.state = prop.value], key |-> "state",
             value |-> WindowStateToString(prop.value)]
      [] prop.kind = "Display" ->
            [w |-> [w EXCEPT !.display = prop.value], key |-> "display", value |-> prop.value]

UpperChars == <<"A","B","C","D","E","F","G","H","I","J","K","L","M",
                "N","O","P","Q","R","S","T","U","V","W","X","Y","Z">>

LowerChars == <<"a","b","c","d","e","f","g","h","i","j","k","l","m",
                "n","o","p","q","r","s","t","u","v","w","x","y","z">>

\* The per-byte rewrite of get_window_match: NUL is kept, a space becomes a
\* dash, anything else is lowercased.
NormalizeByte(b) ==
    CASE b = NUL -> NUL
      [] b = " " -> "-"
      [] \E i \in 1..26 : UpperChars[i] = b ->
            LowerChars[CHOOSE i \in 1..26 : UpperChars[i] = b]
      [] OTHER -> b

\* A byte that no UTF-8 text contains.
BadByte == "\\xFF"

\* The body of X11::get_window_match (x11.rs:375-399) on the non-normalised
\* bytes `raw` of a WM_CLASS reply: "none" when the reply is empty (375-377),
\* holds no NUL (`sep?`, 393) or the name is no UTF-8 (395); "panic" when the
\* class slice value[sep+1 .. len-1] starts past its end (396); "none" when
\* the class is no UTF-8 (396); else the (id, name, class) match.
read_window_match(win_id, raw) ==
    LET value == [i \in 1..Len(raw) |-> NormalizeByte(raw[i])]
        seps  == { i \in 1..Len(raw) : raw[i] = NUL }
    IN  IF Len(raw) = 0 \/ seps = {}
        THEN [kind |-> "none"]
        ELSE LET sep == CHOOSE i \in seps : \A j \in seps : i <= j
             IN  IF \E i \in 1..(sep - 1) : value[i] = BadByte
                 THEN [kind |-> "none"]
                 ELSE IF sep + 1 > Len(value)
                 THEN [kind |-> "panic"]
                 ELSE IF \E i \in (sep + 1)..(Len(value) - 1) : value[i] = BadByte
                 THEN [kind |-> "none"]
                 ELSE [kind |-> "some", id |-> win_id,
                       name |-> SubSeq(value, 1, sep - 1),
                       class |-> SubSeq(value, sep + 1, Len(value) - 1)]

\* X11::get_window_match: the WM_CLASS property of win_id, read.
get_window_match(win_id) == read_window_match(win_id, WmClassOf(win_id))

\* A slip: the children are not searched.
resolve_window_match_shallow(win_id) ==
    IF win_id = 0 THEN [kind |-> "none"]
    ELSE get_window_match(win_id)

RECURSIVE resolve_window_match(_)
RECURSIVE ResolveFirst(_)
\* The loop of resolve_window_match over the children: the first child whose
\* subtree resolves.
ResolveFirst(children) ==
    IF children = <<>> THEN [kind |-> "none"]
    ELSE LET found == resolve_window_match(Head(children))
         IN  IF found.kind # "none" THEN found ELSE ResolveFirst(Tail(children))

\* X11::resolve_window_match: the window itself if it has a match, else the
\* first match found descending into its children in order.
resolve_window_match(win_id) ==
    IF win_id = 0 THEN [kind |-> "none"]
    ELSE LET own == get_window_match(win_id)
         IN  IF own.kind # "none" THEN own ELSE ResolveFirst(Children(win_id))

RECURSIVE ResolveQueries(_)
RECURSIVE ResolveQueriesFirst(_)
ResolveQueriesFirst(children) ==
    IF children = <<>> THEN {}
    ELSE ResolveQueries(Head(children)) \cup
         ( IF resolve_window_match(Head(children)).kind # "none" THEN {}
           ELSE ResolveQueriesFirst(Tail(children)) )

\* The requests resolve_window_match(win_id) sends to the server.
ResolveQueries(win_id) ==
    IF win_id = 0 THEN {}
    ELSE {[req |-> "GetProperty", window |-> win_id, what |-> "WM_CLASS"]} \cup
         ( IF get_window_match(win_id).kind # "none" THEN {}
           ELSE {[req |-> "QueryTree", window |-> win_id, what |-> "children"]}
                \cup ResolveQueriesFirst(Children(win_id)) )

\* The tree and the WM_CLASS properties are fixed, so what a window resolves
\* to, and what is asked of the server on the way, depends on the window only.
Resolved == [w \in {0} \cup Windows |-> resolve_window_match(w)]

ResolveAsked == [w \in {0} \cup Windows |-> ResolveQueries(w)]

\* Atoms::load_window_types: the atom-to-type map.
WindowTypeOfAtom(atom) ==
    CASE atom = "_NET_WM_WINDOW_TYPE_COMBO"         -> "Combo"
      [] atom = "_NET_WM_WINDOW_TYPE_DESKTOP"       -> "Desktop"
      [] atom = "_NET_WM_WINDOW_TYPE_DIALOG"        -> "Dialog"
      [] atom = "_NET_WM_WINDOW_TYPE_DND"           -> "DND"
      [] atom = "_NET_WM_WINDOW_TYPE_DOCK"          -> "Dock"
      [] atom = "_NET_WM_WINDOW_TYPE_DROPDOWN_MENU" -> "DropdownMenu"
      [] atom = "_NET_WM_WINDOW_TYPE_MENU"          -> "Menu"
      [] atom = "_NET_WM_WINDOW_TYPE_NORMAL"        -> "Normal"
      [] atom = "_NET_WM_WINDOW_TYPE_NOTIFICATION"  -> "Notification"
      [] atom = "_NET_WM_WINDOW_TYPE_POPUP_MENU"    -> "PopupMenu"
      [] atom = "_NET_WM_WINDOW_TYPE_SPLASH"        -> "Splash"
      [] atom = "_NET_WM_WINDOW_TYPE_TOOLBAR"       -> "Toolbar"
      [] atom = "_NET_WM_WINDOW_TYPE_TOOLTIP"       -> "Tooltip"
      [] atom = "_NET_WM_WINDOW_TYPE_UTILITY"       -> "Utility"
      [] OTHER                                      -> "unmapped"

\* X11::get_window_type followed by unwrap_or_default: an absent property or
\* an atom outside the map gives WindowType::default().
get_window_type(win_id) ==
    LET atom == WindowTypeAtomOf(win_id)
    IN  IF atom = "absent" \/ WindowTypeOfAtom(atom) = "unmapped"
        THEN "Normal"
        ELSE WindowTypeOfAtom(atom)

\* A slip: one maximized atom is taken for both.
get_window_state_either(prop_reply) ==
    IF ~prop_reply.ok THEN "Normal"
    ELSE IF "FULLSCREEN" \in prop_reply.atoms THEN "Fullscreen"
    ELSE IF "MAXIMIZED_HORZ" \in prop_reply.atoms \/ "MAXIMIZED_VERT" \in prop_reply.atoms
         THEN "Maximized"
    ELSE "Normal"

\* X11::get_window_state followed by unwrap_or_default.
get_window_state(prop_reply) ==
    IF ~prop_reply.ok THEN "Normal"
    ELSE IF "FULLSCREEN" \in prop_reply.atoms THEN "Fullscreen"
    ELSE IF "MAXIMIZED_HORZ" \in prop_reply.atoms /\ "MAXIMIZED_VERT" \in prop_reply.atoms
         THEN "Maximized"
    ELSE "Normal"

Max(a, b) == IF a >= b THEN a ELSE b

Min(a, b) == IF a <= b THEN a ELSE b

\* i16 arithmetic as a build without overflow checks performs it.
WrapI16(n) == ((n + 32768) % 65536) - 32768

\* `w as i16` of a u16.
U16AsI16(w) == IF w >= 32768 THEN w - 65536 ELSE w

\* `n / 2` of an i16: the quotient is rounded towards zero.
HalfI16(n) == IF n >= 0 THEN n \div 2 ELSE -((-n) \div 2)

\* An i16 sum or difference that a build with overflow checks panics on.
OverflowsI16(n) == n < -32768 \/ n > 32767

\* a > b of two u32, each written as the i32 of the same 32 bits.
U32Greater(a, b) ==
    IF (a < 0) # (b < 0) THEN a < 0 ELSE a > b

RECURSIVE MostOverlap(_, _, _, _, _, _, _)
\* The second loop of calc_window_display (x11.rs:499-513), w and h already
\* as i16: the display with the largest overlap so far, a later one only if
\* strictly larger. The area is the u32 product of the two sign-extended
\* i16 differences, written as the i32 of the same bits.
MostOverlap(ds, x, y, w, h, matched, max_overlap_area) ==
    IF ds = <<>> THEN matched
    ELSE LET d == Head(ds)
             over_x1 == Max(x, d.x)
             over_y1 == Max(y, d.y)
             over_x2 == Min(WrapI16(x + w), WrapI16(d.x + d.w))
             over_y2 == Min(WrapI16(y + h), WrapI16(d.y + d.h))
             overlap_area == WrapI16(over_x2 - over_x1) * WrapI16(over_y2 - over_y1)
         IN  IF over_x1 < over_x2 /\ over_y1 < over_y2
                /\ U32Greater(overlap_area, max_overlap_area)
             THEN MostOverlap(Tail(ds), x, y, w, h, d.name, overlap_area)
             ELSE MostOverlap(Tail(ds), x, y, w, h, matched, max_overlap_area)

\* X11::calc_window_display followed by unwrap_or_default, x and y i16, w and
\* h u16, as a build without overflow checks computes it: the first display
\* holding the centre, else the one overlapping most, else "".
calc_window_display(ds, x, y, w, h) ==
    LET w16 == U16AsI16(w)
        h16 == U16AsI16(h)
        cx == WrapI16(x + HalfI16(w16))
        cy == WrapI16(y + HalfI16(h16))
        holds(d) == /\ cx >= d.x /\ cx < WrapI16(d.x + d.w)
                    /\ cy >= d.y /\ cy < WrapI16(d.y + d.h)
        hits == { i \in 1..Len(ds) : holds(ds[i]) }
    IN  IF hits # {}
        THEN ds[CHOOSE i \in hits : \A j \in hits : i <= j].name
        ELSE MostOverlap(ds, x, y, w16, h16, <<>>, 0)

RECURSIVE FindPanics(_, _, _)
\* The search for the display holding the centre (x11.rs:486-491) under
\* overflow checks: "panic" when a sum it evaluates overflows, else whether
\* a display was found. && evaluates its right side only when the left holds.
FindPanics(ds, cx, cy) ==
    IF ds = <<>> THEN "none"
    ELSE LET d == Head(ds)
         IN  IF cx < d.x THEN FindPanics(Tail(ds), cx, cy)
             ELSE IF OverflowsI16(d.x + d.w) THEN "panic"
             ELSE IF ~(cx < d.x + d.w) \/ cy < d.y THEN FindPanics(Tail(ds), cx, cy)
             ELSE IF OverflowsI16(d.y + d.h) THEN "panic"
             ELSE IF cy < d.y + d.h THEN "found"
             ELSE FindPanics(Tail(ds), cx, cy)

RECURSIVE OverlapPanics(_, _, _, _, _)
\* The second loop under overflow checks, w and h already as i16: whether one
\* of its sums or differences overflows. The product of two differences that
\* did not overflow fits a u32.
OverlapPanics(ds, x, y, w, h) ==
    IF ds = <<>> THEN FALSE
    ELSE LET d == Head(ds)
         IN  \/ OverflowsI16(x + w) \/ OverflowsI16(d.x + d.w)
             \/ OverflowsI16(y + h) \/ OverflowsI16(d.y + d.h)
             \/ /\ Max(x, d.x) < Min(x + w, d.x + d.w)
                /\ Max(y, d.y) < Min(y + h, d.y + d.h)
                /\ \/ OverflowsI16(Min(x + w, d.x + d.w) - Max(x, d.x))
                   \/ OverflowsI16(Min(y + h, d.y + d.h) - Max(y, d.y))
             \/ OverlapPanics(Tail(ds), x, y, w, h)

\* Whether X11::calc_window_display panics in a build with overflow checks.
calc_window_display_panics(ds, x, y, w, h) ==
    LET w16 == U16AsI16(w)
        h16 == U16AsI16(h)
    IN  \/ OverflowsI16(x + HalfI16(w16))
        \/ OverflowsI16(y + HalfI16(h16))
        \/ LET found == FindPanics(ds, x + HalfI16(w16), y + HalfI16(h16))
           IN  \/ found = "panic"
               \/ found = "none" /\ OverlapPanics(ds, x, y, w16, h16)

\* X11::get_window_display followed by unwrap_or_default.
get_window_display(ds, geometry) ==
    IF ~geometry.ok THEN <<>>
    ELSE calc_window_display(ds, geometry.g.x, geometry.g.y, geometry.g.width,
                             geometry.g.height)

\* The six requests of get_window, issued concurrently.
GetWindowQueries(id) ==
    { [req |-> "GetProperty", window |-> id, what |-> "_NET_WM_PID"],
      [req |-> "GetProperty", window |-> id, what |-> "_NET_WM_NAME"],
      [req |-> "GetProperty", window |-> id, what |-> "_NET_WM_WINDOW_TYPE"],
      [req |-> "GetProperty", window |-> id, what |-> "WM_WINDOW_ROLE"],
      [req |-> "GetProperty", window |-> id, what |-> "_NET_WM_STATE"],
      [req |-> "GetGeometry", window |-> id, what |-> "geometry"] }

\* A slip: the record takes the id of the match for its top-level id.
get_window_top_is_match(ds, top_id, win_match, title, atoms, geometry) ==
    IF win_match.id = 0 THEN XWindowDefault
    ELSE XWindowNew(win_match, win_match.id, PidOf(win_match.id), title,
                    get_window_type(win_match.id), RoleOf(win_match.id),
                    get_window_state(atoms), get_window_display(ds, geometry))

\* X11::get_window: the record built from a match and what the server
\* answers for the title, the state atoms and the geometry.
get_window(ds, top_id, win_match, title, atoms, geometry) ==
    IF win_match.id = 0 THEN XWindowDefault
    ELSE XWindowNew(win_match, top_id, PidOf(win_match.id), title,
                    get_window_type(win_match.id), RoleOf(win_match.id),
                    get_window_state(atoms), get_window_display(ds, geometry))

----------------------------------------------------------------------------
(* providers/x11.rs: the tracker                                           *)

ChildEventMask == {"FOCUS_CHANGE", "ENTER_WINDOW", "PROPERTY_CHANGE"}

NoIteration == [kind |-> "none", branch |-> "none", requests |-> {}, ncalls |-> 0]

Iteration(kind, branch, requests, made) ==
    [kind |-> kind, branch |-> branch, requests |-> requests, ncalls |-> made]

\* No tracker runs (the specifications of the service and of the debouncer).
TrackerIdle ==
    /\ x_active = XWindowDefault
    /\ x_pointer = XWindowDefault
    /\ displays = <<>>
    /\ status = "off"
    /\ conn = "up"
    /\ ev = NoIteration
    /\ quiet = Delay
    /\ burst = <<>>
    /\ owed = <<>>

\* X11::new: both records default, the monitors as enumerated.
TrackerInit(layouts) ==
    /\ x_active = XWindowDefault
    /\ x_pointer = XWindowDefault
    /\ displays \in layouts
    /\ status = "starting"
    /\ conn = "up"
    /\ ev = NoIteration
    /\ quiet = Delay
    /\ burst = <<>>
    /\ owed = <<>>

\* An iteration of the loop that calls no method of the service: the cached
\* records stay, and there is no reply.
NoCall ==
    /\ reply' = NoReply
    /\ UNCHANGED <<active_window, pointer_window>>

\* `?` on the result of a service call: an error ends serve().
AfterCall == IF reply'.ok THEN "running" ELSE "failed"

\* A slip: both records are assigned whatever the context.
X11SetWindowBothRecords(context, window) ==
    /\ x_active' = window
    /\ x_pointer' = window
    /\ SetWindow(context, XWindowAsMap(window))

\* X11::set_window
X11SetWindow(context, window) ==
    /\ x_active' = IF context \in {"active", "both"} THEN window ELSE x_active
    /\ x_pointer' = IF context \in {"pointer", "both"} THEN window ELSE x_pointer
    /\ SetWindow(context, XWindowAsMap(window))

\* x11.rs:263-265: an update of Active becomes an update of Both when the two
\* records hold the same window id.
Promote(context) ==
    IF context = "active" /\ x_active.id = x_pointer.id THEN "both" ELSE context

\* A slip: both records are updated but the call keeps the context it was
\* asked for.
X11UpdateWindowUnpromotedCall(context, prop) ==
    LET ctx == Promote(context)
        a == XWindowUpdate(x_active, prop)
        p == XWindowUpdate(x_pointer, prop)
        kv == IF ctx = "active" THEN a ELSE p
    IN  /\ x_active' = IF ctx \in {"active", "both"} THEN a.w ELSE x_active
        /\ x_pointer' = IF ctx \in {"pointer", "both"} THEN p.w ELSE x_pointer
        /\ UpdateWindow(context, kv.key, kv.value)

\* X11::update_window
X11UpdateWindow(context, prop) ==
    LET ctx == Promote(context)
        a == XWindowUpdate(x_active, prop)
        p == XWindowUpdate(x_pointer, prop)
        kv == IF ctx = "active" THEN a ELSE p
    IN  /\ x_active' = IF ctx \in {"active", "both"} THEN a.w ELSE x_active
        /\ x_pointer' = IF ctx \in {"pointer", "both"} THEN p.w ELSE x_pointer
        /\ UpdateWindow(ctx, kv.key, kv.value)

\* An iteration that `continue`s, or falls through, without touching anything.
Ignore(kind, branch, requests) ==
    /\ ev' = Iteration(kind, branch, requests, 0)
    /\ NoCall
    /\ UNCHANGED <<x_active, x_pointer, displays, status, conn, deb, geo_vars>>

\* An iteration that publishes a whole record.
Publish(kind, branch, requests, context, window) ==
    /\ X11SetWindow(context, window)
    /\ ev' = Iteration(kind, branch, requests, 1)
    /\ status' = AfterCall
    /\ UNCHANGED <<displays, conn, deb, geo_vars>>

\* An iteration that publishes one field.
PublishUpdate(kind, branch, requests, context, prop) ==
    /\ X11UpdateWindow(context, prop)
    /\ ev' = Iteration(kind, branch, requests, 1)
    /\ status' = AfterCall

\* get_window_match panicked: the task of the provider is gone.
Panic(kind, requests) ==
    /\ ev' = Iteration(kind, "panic", requests, 0)
    /\ status' = "panicked"
    /\ NoCall
    /\ UNCHANGED <<x_active, x_pointer, displays, conn, deb, geo_vars>>

\* A window resolved and built for `context`; `known_id` is the id of the
\* record the context holds (x11.rs:77-85, 102-110, 314-315, 327-328).
ResolveAndPublish(kind, context, target, known_id, answers) ==
    LET win_match == Resolved[target]
        asked == ResolveAsked[target]
    IN  CASE win_match.kind = "none"  -> Ignore(kind, "no_match", asked)
          [] win_match.kind = "panic" -> Panic(kind, asked)
          [] win_match.kind = "some"  ->
                IF win_match.id = known_id
                THEN Ignore(kind, "same_id", asked)
                ELSE \E title \in answers.titles, atoms \in answers.states,
                        geometry \in answers.geometries :
                        Publish(kind, "new_window",
                                asked \cup GetWindowQueries(win_match.id), context,
                                get_window(displays, target, win_match, title, atoms, geometry))

\* x11.rs:40-42: the initial Active window, from _NET_ACTIVE_WINDOW of the
\* root (0 when absent or None).
StartupActive(win_id, answers) ==
    /\ status = "starting"
    /\ LET win_match == Resolved[win_id]
       IN  CASE win_match.kind = "none" ->
                   /\ ev' = Iteration("Startup", "no_active", ResolveAsked[win_id], 0)
                   /\ status' = "started"
                   /\ NoCall
                   /\ UNCHANGED <<x_active, x_pointer>>
             [] win_match.kind = "panic" ->
                   /\ ev' = Iteration("Startup", "panic", ResolveAsked[win_id], 0)
                   /\ status' = "panicked"
                   /\ NoCall
                   /\ UNCHANGED <<x_active, x_pointer>>
             [] win_match.kind = "some" ->
                   /\ \E title \in answers.titles, atoms \in answers.states,
                         geometry \in answers.geometries :
                         X11SetWindow("active", get_window(displays, win_id, win_match,
                                                       title, atoms, geometry))
                   /\ ev' = Iteration("Startup", "active",
                                      ResolveAsked[win_id] \cup GetWindowQueries(win_match.id), 1)
                   /\ status' = IF reply'.ok THEN "started" ELSE "failed"
    /\ UNCHANGED <<displays, conn, deb, geo_vars>>

\* x11.rs:44-50: the initial Pointer window, from query_pointer(root).child;
\* then the debouncers are created and the loop is entered.
StartupPointer(win_id, answers) ==
    /\ status = "started"
    /\ LET win_match == Resolved[win_id]
       IN  CASE win_match.kind = "none" ->
                   /\ ev' = Iteration("Startup", "no_pointer", ResolveAsked[win_id], 0)
                   /\ status' = "running"
                   /\ NoCall
                   /\ UNCHANGED <<x_active, x_pointer>>
             [] win_match.kind = "panic" ->
                   /\ ev' = Iteration("Startup", "panic", ResolveAsked[win_id], 0)
                   /\ status' = "panicked"
                   /\ NoCall
                   /\ UNCHANGED <<x_active, x_pointer>>
             [] win_match.kind = "some" ->
                   /\ \E title \in answers.titles, atoms \in answers.states,
                         geometry \in answers.geometries :
                         X11SetWindow("pointer", get_window(displays, win_id, win_match,
                                                       title, atoms, geometry))
                   /\ ev' = Iteration("Startup", "pointer",
                                      ResolveAsked[win_id] \cup GetWindowQueries(win_match.id), 1)
                   /\ status' = AfterCall
    /\ UNCHANGED <<displays, conn, deb, geo_vars>>

\* The loop is at its select! and the X connection delivers an event.
AtSelect == status = "running"

\* A slip: the override_redirect test is missing.
XCreateNotifyNoFilter(e, outcome) ==
    /\ AtSelect /\ conn = "up"
    /\ ev' = Iteration("CreateNotify", outcome,
                       {[req |-> "ChangeWindowAttributes", window |-> e.window,
                         what |-> ChildEventMask]}, 0)
    /\ status' = IF outcome = "flush_error" THEN "failed" ELSE status
    /\ conn' = IF outcome \in {"send_error", "flush_error"} THEN "down" ELSE conn
    /\ NoCall
    /\ UNCHANGED <<x_active, x_pointer, displays, deb, geo_vars>>

\* Event::CreateNotify (x11.rs:56-64). outcome: the request is sent and
\* flushed ("sent"), the same but the server refuses it because the window
\* is gone already ("bad_window": the refusal arrives later as an error
\* event, which the loop ignores), sending fails ("send_error": no flush,
\* the loop goes on), or the flush fails ("flush_error": `?` ends serve()).
XCreateNotify(e, outcome) ==
    /\ AtSelect /\ conn = "up"
    /\ IF e.override_redirect
       THEN Ignore("CreateNotify", "override_redirect", {})
       ELSE /\ ev' = Iteration("CreateNotify", outcome,
                               {[req |-> "ChangeWindowAttributes", window |-> e.window,
                                 what |-> ChildEventMask]}, 0)
            /\ status' = IF outcome = "flush_error" THEN "failed" ELSE status
            /\ conn' = IF outcome \in {"send_error", "flush_error"} THEN "down" ELSE conn
            /\ NoCall
    /\ UNCHANGED <<x_active, x_pointer, displays, deb, geo_vars>>

\* A slip: only the mode is tested.
XFocusInModeOnly(e, answers) ==
    /\ AtSelect /\ conn = "up"
    /\ IF e.mode # "Normal"
       THEN Ignore("FocusIn", "filtered", {})
       ELSE IF e.event = x_active.id \/ e.event = x_active.top_id
       THEN Ignore("FocusIn", "already_active", {})
       ELSE IF e.event = x_pointer.id \/ e.event = x_pointer.top_id
       THEN Publish("FocusIn", "adopt_pointer", {}, "active", x_pointer)
       ELSE ResolveAndPublish("FocusIn", "active", e.event, x_active.id, answers)

\* A slip: the adopted record is rebuilt from the server instead of copied.
XFocusInRefetches(e, answers) ==
    /\ AtSelect /\ conn = "up"
    /\ IF e.mode # "Normal" \/ e.detail # "NonlinearVirtual"
       THEN Ignore("FocusIn", "filtered", {})
       ELSE IF e.event = x_active.id \/ e.event = x_active.top_id
       THEN Ignore("FocusIn", "already_active", {})
       ELSE IF e.event = x_pointer.id \/ e.event = x_pointer.top_id
       THEN \E title \in answers.titles :
                Publish("FocusIn", "adopt_pointer", GetWindowQueries(x_pointer.id), "active",
                        [x_pointer EXCEPT !.title = title])
       ELSE ResolveAndPublish("FocusIn", "active", e.event, x_active.id, answers)

\* Event::FocusIn (x11.rs:65-89)
XFocusIn(e, answers) ==
    /\ AtSelect /\ conn = "up"
    /\ IF e.mode # "Normal" \/ e.detail # "NonlinearVirtual"
       THEN Ignore("FocusIn", "filtered", {})
       ELSE IF e.event = x_active.id \/ e.event = x_active.top_id
       THEN Ignore("FocusIn", "already_active", {})
       ELSE IF e.event = x_pointer.id \/ e.event = x_pointer.top_id
       THEN Publish("FocusIn", "adopt_pointer", {}, "active", x_pointer)
       ELSE ResolveAndPublish("FocusIn", "active", e.event, x_active.id, answers)

\* A slip: the Active record is adopted with the display it holds.
XEnterNotifyKeepsDisplay(e, answers) ==
    /\ AtSelect /\ conn = "up"
    /\ IF e.event = x_pointer.id \/ e.event = x_pointer.top_id \/ e.child = x_pointer.id
       THEN Ignore("EnterNotify", "already_pointer", {})
       ELSE IF e.event = x_active.id \/ e.event = x_active.top_id
       THEN Publish("EnterNotify", "adopt_active", {}, "pointer", x_active)
       ELSE ResolveAndPublish("EnterNotify", "pointer", e.event, x_pointer.id, answers)

\* Event::EnterNotify (x11.rs:90-114)
XEnterNotify(e, answers) ==
    /\ AtSelect /\ conn = "up"
    /\ IF e.event = x_pointer.id \/ e.event = x_pointer.top_id \/ e.child = x_pointer.id
       THEN Ignore("EnterNotify", "already_pointer", {})
       ELSE IF e.event = x_active.id \/ e.event = x_active.top_id
       THEN \E geometry \in answers.geometries :
                Publish("EnterNotify", "adopt_active",
                        {[req |-> "GetGeometry", window |-> x_active.id, what |-> "geometry"]},
                        "pointer",
                        [x_active EXCEPT !.display = get_window_display(displays, geometry)])
       ELSE ResolveAndPublish("EnterNotify", "pointer", e.event, x_pointer.id, answers)

\* A slip: the Pointer arms are missing.
XPropertyNotifyActiveOnly(e, answers) ==
    /\ AtSelect /\ conn = "up"
    /\ UNCHANGED <<displays, conn, deb, geo_vars>>
    /\ IF e.window # x_active.id /\ e.window # x_pointer.id
       THEN Ignore("PropertyNotify", "other_window", {})
       ELSE CASE e.atom = "_NET_WM_NAME" ->
                   \E title \in answers.titles :
                     LET asked == {[req |-> "GetProperty", window |-> e.window,
                                    what |-> "_NET_WM_NAME"]}
                     IN  IF e.window = x_active.id /\ title # x_active.title
                         THEN PublishUpdate("PropertyNotify", "title", asked, "active",
                                            [kind |-> "Title", value |-> title])
                         ELSE Ignore("PropertyNotify", "unchanged", asked)
              [] e.atom = "_NET_WM_STATE" ->
                   \E atoms \in answers.states :
                     LET asked == {[req |-> "GetProperty", window |-> e.window,
                                    what |-> "_NET_WM_STATE"]}
                         new_state == get_window_state(atoms)
                     IN  IF e.window = x_active.id /\ new_state # x_active.state
                         THEN PublishUpdate("PropertyNotify", "state", asked, "active",
                                            [kind |-> "State", value |-> new_state])
                         ELSE Ignore("PropertyNotify", "unchanged", asked)
              [] OTHER -> Ignore("PropertyNotify", "other_atom", {})

\* Event::PropertyNotify (x11.rs:115-137)
XPropertyNotify(e, answers) ==
    /\ AtSelect /\ conn = "up"
    /\ UNCHANGED <<displays, conn, deb, geo_vars>>
    /\ IF e.window # x_active.id /\ e.window # x_pointer.id
       THEN Ignore("PropertyNotify", "other_window", {})
       ELSE CASE e.atom = "_NET_WM_NAME" ->
                   \E title \in answers.titles :
                     LET asked == {[req |-> "GetProperty", window |-> e.window,
                                    what |-> "_NET_WM_NAME"]}
                     IN  IF e.window = x_active.id /\ title # x_active.title
                         THEN PublishUpdate("PropertyNotify", "title", asked, "active",
                                            [kind |-> "Title", value |-> title])
                         ELSE IF e.window = x_pointer.id /\ title # x_pointer.title
                         THEN PublishUpdate("PropertyNotify", "title", asked, "pointer",
                                            [kind |-> "Title", value |-> title])
                         ELSE Ignore("PropertyNotify", "unchanged", asked)
              [] e.atom = "_NET_WM_STATE" ->
                   \E atoms \in answers.states :
                     LET asked == {[req |-> "GetProperty", window |-> e.window,
                                    what |-> "_NET_WM_STATE"]}
                         new_state == get_window_state(atoms)
                     IN  IF e.window = x_active.id /\ new_state # x_active.state
                         THEN PublishUpdate("PropertyNotify", "state", asked, "active",
                                            [kind |-> "State", value |-> new_state])
                         ELSE IF e.window = x_pointer.id /\ new_state # x_pointer.state
                         THEN PublishUpdate("PropertyNotify", "state", asked, "pointer",
                                            [kind |-> "State", value |-> new_state])
                         ELSE Ignore("PropertyNotify", "unchanged", asked)
              [] OTHER -> Ignore("PropertyNotify", "other_atom", {})

\* Event::RandrNotify | Event::RandrScreenChangeNotify (x11.rs:138-140);
\* `?` on get_displays ends serve() when the enumeration fails.
XRandrNotify(enumerated) ==
    /\ AtSelect /\ conn = "up"
    /\ IF enumerated.ok
       THEN /\ displays' = enumerated.monitors
            /\ status' = status
            /\ ev' = Iteration("RandrNotify", "enumerated",
                               {[req |-> "RandrGetMonitors", window |-> 0, what |-> "monitors"]}, 0)
       ELSE /\ displays' = displays
            /\ status' = "failed"
            /\ ev' = Iteration("RandrNotify", "error",
                               {[req |-> "RandrGetMonitors", window |-> 0, what |-> "monitors"]}, 0)
    /\ NoCall
    /\ UNCHANGED <<x_active, x_pointer, conn, deb, geo_vars>>

\* The ConfigureNotify as the debouncers carry it.
Moved(e) ==
    [window |-> e.window, x |-> e.x, y |-> e.y, width |-> e.width, height |-> e.height]

\* Event::ConfigureNotify (x11.rs:141-151)
XConfigureNotify(e) ==
    /\ AtSelect /\ conn = "up"
    /\ IF e.override_redirect
       THEN Ignore("ConfigureNotify", "override_redirect", {})
       ELSE IF e.window = x_active.top_id
       THEN /\ DebPush("active", Moved(e))
            /\ ev' = Iteration("ConfigureNotify", "push_active", {}, 0)
            /\ quiet' = 0
            /\ burst' = IF quiet = Delay THEN <<Moved(e)>> ELSE Append(burst, Moved(e))
            /\ NoCall
            /\ UNCHANGED <<x_active, x_pointer, displays, status, conn, owed>>
       ELSE IF e.window = x_pointer.top_id
       THEN /\ DebPush("pointer", Moved(e))
            /\ ev' = Iteration("ConfigureNotify", "push_pointer", {}, 0)
            /\ NoCall
            /\ UNCHANGED <<x_active, x_pointer, displays, status, conn, geo_vars>>
       ELSE Ignore("ConfigureNotify", "other_window", {})

\* Any other event, an X error among them (x11.rs:152).
XOtherEvent ==
    /\ AtSelect /\ conn = "up"
    /\ Ignore("Other", "ignored", {})

\* wait_for_event returns an error: `event?` ends serve() (x11.rs:55).
XEventError ==
    /\ AtSelect
    /\ ev' = Iteration("EventError", "error", {}, 0)
    /\ status' = "failed"
    /\ conn' = "down"
    /\ NoCall
    /\ UNCHANGED <<x_active, x_pointer, displays, deb, geo_vars>>

\* A slip: the display of every debounced event is published, changed or not.
DebouncedAlwaysPublishes(c) ==
    /\ AtSelect
    /\ deb[c].output # <<>>
    /\ LET e == Head(deb[c].output)
           mine == IF c = "active" THEN x_active ELSE x_pointer
           new_display == calc_window_display(displays, e.x, e.y, e.width, e.height)
       IN  /\ deb' = [deb EXCEPT ![c].output = Tail(@)]
           /\ owed' = IF c = "active" /\ owed # <<>> THEN Tail(owed) ELSE owed
           /\ UNCHANGED <<displays, conn, quiet, burst>>
           /\ PublishUpdate("Debounced", c, {}, c, [kind |-> "Display", value |-> new_display])

\* A slip: the display is computed from the monitors found at startup.
DebouncedStartupList(c) ==
    /\ AtSelect
    /\ deb[c].output # <<>>
    /\ LET e == Head(deb[c].output)
           mine == IF c = "active" THEN x_active ELSE x_pointer
           new_display == calc_window_display(TwoMonitors, e.x, e.y, e.width, e.height)
       IN  /\ deb' = [deb EXCEPT ![c].output = Tail(@)]
           /\ owed' = IF c = "active" /\ owed # <<>> THEN Tail(owed) ELSE owed
           /\ UNCHANGED <<displays, conn, quiet, burst>>
           /\ IF e.window # mine.top_id
              THEN /\ ev' = Iteration("Debounced", "stale", {}, 0)
                   /\ NoCall
                   /\ UNCHANGED <<x_active, x_pointer, status>>
              ELSE IF new_display # mine.display
              THEN PublishUpdate("Debounced", c, {}, c,
                                 [kind |-> "Display", value |-> new_display])
              ELSE /\ ev' = Iteration("Debounced", "unchanged", {}, 0)
                   /\ NoCall
                   /\ UNCHANGED <<x_active, x_pointer, status>>

\* A slip: the yielded event is used whatever window it is for.
DebouncedNoStaleTest(c) ==
    /\ AtSelect
    /\ deb[c].output # <<>>
    /\ LET e == Head(deb[c].output)
           mine == IF c = "active" THEN x_active ELSE x_pointer
           new_display == calc_window_display(displays, e.x, e.y, e.width, e.height)
       IN  /\ deb' = [deb EXCEPT ![c].output = Tail(@)]
           /\ owed' = IF c = "active" /\ owed # <<>> THEN Tail(owed) ELSE owed
           /\ UNCHANGED <<displays, conn, quiet, burst>>
           /\ IF new_display # mine.display
              THEN PublishUpdate("Debounced", c, {}, c,
                                 [kind |-> "Display", value |-> new_display])
              ELSE /\ ev' = Iteration("Debounced", "unchanged", {}, 0)
                   /\ NoCall
                   /\ UNCHANGED <<x_active, x_pointer, status>>

\* Some(e) = active_move_debouncer.next() / pointer_move_debouncer.next()
\* (x11.rs:155-176), c the context of the debouncer.
Debounced(c) ==
    /\ AtSelect
    /\ deb[c].output # <<>>
    /\ LET e == Head(deb[c].output)
           mine == IF c = "active" THEN x_active ELSE x_pointer
           new_display == calc_window_display(displays, e.x, e.y, e.width, e.height)
       IN  /\ deb' = [deb EXCEPT ![c].output = Tail(@)]
           /\ owed' = IF c = "active" /\ owed # <<>> THEN Tail(owed) ELSE owed
           /\ UNCHANGED <<displays, conn, quiet, burst>>
           /\ IF e.window # mine.top_id
              THEN /\ ev' = Iteration("Debounced", "stale", {}, 0)
                   /\ NoCall
                   /\ UNCHANGED <<x_active, x_pointer, status>>
              ELSE IF new_display # mine.display
              THEN PublishUpdate("Debounced", c, {}, c,
                                 [kind |-> "Display", value |-> new_display])
              ELSE /\ ev' = Iteration("Debounced", "unchanged", {}, 0)
                   /\ NoCall
                   /\ UNCHANGED <<x_active, x_pointer, status>>

\* The task of a debouncer takes a step (debouncer.rs:27-58).
DebTaskStep(c) ==
    /\ \/ DebRecvFirst(c)
       \/ DebRecvMore(c)
       \/ DebTimerFire(c)
    /\ UNCHANGED <<x_vars, svc_vars, geo_vars>>

\* Time passes: a burst into the Active debouncer is complete once Delay
\* ticks have passed since its last push. The loop, like the tasks of the
\* debouncers, reacts within the tick: time does not pass while a debounced
\* event waits to be taken (X events may still arrive before it is taken).
Tick ==
    /\ status \in {"running", "failed", "panicked"}
    /\ status = "running" => \A c \in DebIds : deb[c].output = <<>>
    /\ DebTick
    /\ quiet' = IF quiet < Delay THEN quiet + 1 ELSE Delay
    /\ owed' = IF quiet + 1 = Delay THEN Append(owed, burst[Len(burst)]) ELSE owed
    /\ UNCHANGED <<x_vars, svc_vars, burst>>

----------------------------------------------------------------------------
(* One debouncer driven by a producer and a consumer: SpecDeb              *)

MaxPush == 4

ProducerInit ==
    /\ npush = 0
    /\ sincePush = Delay
    /\ bursts = <<>>
    /\ yielded = <<>>

\* The producer pushes the values 1, 2, 3, ...
ProdPush ==
    /\ UNCHANGED <<svc_vars, client_vars, x_vars, geo_vars, aux_vars>>
    /\ npush < MaxPush
    /\ DebPush("active", npush + 1)
    /\ npush' = npush + 1
    /\ sincePush' = 0
    /\ UNCHANGED <<bursts, yielded>>

ProdRecvFirst ==
    /\ UNCHANGED <<svc_vars, client_vars, x_vars, geo_vars, aux_vars>>
    /\ DebRecvFirst("active")
    /\ UNCHANGED producer_vars

ProdRecvMore ==
    /\ UNCHANGED <<svc_vars, client_vars, x_vars, geo_vars, aux_vars>>
    /\ DebRecvMore("active")
    /\ UNCHANGED producer_vars

ProdTimerFire ==
    /\ UNCHANGED <<svc_vars, client_vars, x_vars, geo_vars, aux_vars>>
    /\ DebTimerFire("active")
    /\ UNCHANGED producer_vars

\* A burst is complete when Delay ticks have passed since its last push.
ProdTick ==
    /\ UNCHANGED <<svc_vars, client_vars, x_vars, geo_vars, aux_vars>>
    /\ DebTick
    /\ sincePush' = IF sincePush < Delay THEN sincePush + 1 ELSE Delay
    /\ bursts' = IF sincePush + 1 = Delay THEN Append(bursts, npush) ELSE bursts
    /\ UNCHANGED <<npush, yielded>>

ProdNext ==
    /\ UNCHANGED <<svc_vars, client_vars, x_vars, geo_vars, aux_vars>>
    /\ DebNext("active")
    /\ yielded' = Append(yielded, Head(deb["active"].output))
    /\ UNCHANGED <<npush, sincePush, bursts>>

DebSpecInit == ServiceInit /\ ClientInit /\ AuxIdle /\ DebInit /\ ProducerInit /\ TrackerIdle

DebSpecNext ==
    \/ ProdPush
    \/ ProdRecvFirst
    \/ ProdRecvMore
    \/ ProdTimerFire
    \/ ProdTick
    \/ ProdNext

SpecDeb == DebSpecInit /\ [][DebSpecNext]_vars

IsPrefix(s, t) == Len(s) <= Len(t) /\ \A i \in 1..Len(s) : s[i] = t[i]

----------------------------------------------------------------------------
(* The tracker, the service and the two debouncers together: Spec          *)

\* The events the X connection may deliver.
FocusModes == {"Normal", "Grab"}

FocusDetails == {"NonlinearVirtual", "Nonlinear"}

EventWindows == {1, 3, 4, 5}

FocusInEvents == [event : EventWindows, mode : FocusModes, detail : FocusDetails]

EnterNotifyEvents == [event : EventWindows, child : {0, 3}]

PropertyAtoms == {"_NET_WM_NAME", "_NET_WM_STATE", "WM_HINTS"}

PropertyNotifyEvents == [window : {1, 3, 4}, atom : PropertyAtoms]

CreateNotifyEvents == [window : {5}, override_redirect : BOOLEAN]

CreateOutcomes == {"sent", "bad_window", "send_error", "flush_error"}

MonitorReplies ==
    { [ok |-> FALSE, monitors |-> <<>>] } \cup
    { [ok |-> TRUE, monitors |-> m] : m \in MonitorLayouts }

Untouched == UNCHANGED <<client_vars, producer_vars, aux_vars>>

TrkAnswers ==
    [titles |-> TrkTitles, states |-> TrkStateReplies, geometries |-> TrkGeometryReplies]

TrkStartupActive ==
    \E w \in {0} \cup Windows : StartupActive(w, TrkAnswers) /\ Untouched

TrkStartupPointer ==
    \E w \in {0} \cup Windows : StartupPointer(w, TrkAnswers) /\ Untouched

TrkCreateNotify ==
    \E e \in CreateNotifyEvents, o \in CreateOutcomes : XCreateNotify(e, o) /\ Untouched

TrkFocusIn == \E e \in FocusInEvents : XFocusIn(e, TrkAnswers) /\ Untouched

TrkEnterNotify == \E e \in EnterNotifyEvents : XEnterNotify(e, TrkAnswers) /\ Untouched

TrkPropertyNotify == \E e \in PropertyNotifyEvents : XPropertyNotify(e, TrkAnswers) /\ Untouched

TrkRandrNotify == \E m \in MonitorReplies : XRandrNotify(m) /\ Untouched

TrkOtherEvent == XOtherEvent /\ Untouched

TrkEventError == XEventError /\ Untouched

Init == ServiceInit /\ ClientInit /\ AuxIdle /\ DebInit /\ ProducerInit /\ TrackerInit(MonitorLayouts)

\* No window is moved or resized: the debouncers stay idle.
Next ==
    \/ TrkStartupActive
    \/ TrkStartupPointer
    \/ TrkCreateNotify
    \/ TrkFocusIn
    \/ TrkEnterNotify
    \/ TrkPropertyNotify
    \/ TrkRandrNotify
    \/ TrkOtherEvent
    \/ TrkEventError

Spec == Init /\ [][Next]_vars

----------------------------------------------------------------------------
(* The tracker with windows that move: SpecGeo                             *)
(*                                                                         *)
(* Titles, states and the monitors (DP-1 beside DP-2) are held fixed;       *)
(* focus, pointer, geometry and time vary.                                 *)

MaxMoves == 2

GeoWindows == {1, 4}

\* On DP-1 and on DP-2.
MoveGeometries ==
    { [x |-> 0, y |-> 0, width |-> 2, height |-> 2],
      [x |-> 4, y |-> 1, width |-> 2, height |-> 2] }

\* A window is beyond both monitors when the tracker first looks at it.
GeoAnswers ==
    [titles |-> { <<"A">> }, states |-> { [ok |-> FALSE, atoms |-> {}] },
     geometries |-> { [ok |-> TRUE, g |-> [x |-> 20, y |-> 20, width |-> 2, height |-> 2]] }]

GeoFocusInEvents ==
    [event : GeoWindows, mode : {"Normal"}, detail : {"NonlinearVirtual"}]

GeoEnterNotifyEvents == [event : GeoWindows, child : {0}]

GeoConfigureNotifyEvents ==
    { [window |-> w, override_redirect |-> o, x |-> g.x, y |-> g.y,
       width |-> g.width, height |-> g.height] :
         w \in GeoWindows, o \in BOOLEAN, g \in MoveGeometries }

GeoUntouched == UNCHANGED <<client_vars, sincePush, bursts, yielded, aux_vars>>

GeoStartupActive ==
    \E w \in {0} \cup GeoWindows :
        StartupActive(w, GeoAnswers) /\ GeoUntouched /\ UNCHANGED npush

GeoStartupPointer ==
    \E w \in {0} \cup GeoWindows :
        StartupPointer(w, GeoAnswers) /\ GeoUntouched /\ UNCHANGED npush

GeoFocusIn ==
    \E e \in GeoFocusInEvents : XFocusIn(e, GeoAnswers) /\ GeoUntouched /\ UNCHANGED npush

GeoEnterNotify ==
    \E e \in GeoEnterNotifyEvents :
        XEnterNotify(e, GeoAnswers) /\ GeoUntouched /\ UNCHANGED npush

\* At most MaxMoves ConfigureNotify events are delivered in a run.
GeoConfigureNotify ==
    /\ npush < MaxMoves
    /\ npush' = npush + 1
    /\ \E e \in GeoConfigureNotifyEvents : XConfigureNotify(e) /\ GeoUntouched

GeoActiveDebounced == Debounced("active") /\ GeoUntouched /\ UNCHANGED npush

GeoPointerDebounced == Debounced("pointer") /\ GeoUntouched /\ UNCHANGED npush

GeoDebTaskStep == \E c \in DebIds : DebTaskStep(c) /\ GeoUntouched /\ UNCHANGED npush

GeoTick == Tick /\ GeoUntouched /\ UNCHANGED npush

GeoNext ==
    \/ GeoStartupActive
    \/ GeoStartupPointer
    \/ GeoFocusIn
    \/ GeoEnterNotify
    \/ GeoConfigureNotify
    \/ GeoActiveDebounced
    \/ GeoPointerDebounced
    \/ GeoDebTaskStep
    \/ GeoTick

GeoInit ==
    ServiceInit /\ ClientInit /\ AuxIdle /\ DebInit /\ ProducerInit /\ TrackerInit({TwoMonitors})

SpecGeo == GeoInit /\ [][GeoNext]_vars

----------------------------------------------------------------------------
(* Windows that move while the monitors change: SpecRandr                  *)
(*                                                                         *)
(* The tracker starts beside DP-1 and DP-2; RandR notifications re-enumerate *)
(* the monitors while ConfigureNotify events pass through the debouncers.   *)

NoMonitors == << >>

RandrLayouts == { TwoMonitors, OneMonitor, NoMonitors }

RandrReplies ==
    { [ok |-> FALSE, monitors |-> <<>>] } \cup
    { [ok |-> TRUE, monitors |-> m] : m \in RandrLayouts }

RandrRandrNotify ==
    \E m \in RandrReplies : XRandrNotify(m) /\ GeoUntouched /\ UNCHANGED npush

\* The loop of SpecGeo without focus and pointer events, with RandR events.
RandrNext ==
    \/ GeoStartupActive
    \/ GeoStartupPointer
    \/ RandrRandrNotify
    \/ GeoConfigureNotify
    \/ GeoActiveDebounced
    \/ GeoPointerDebounced
    \/ GeoDebTaskStep
    \/ GeoTick

SpecRandr == GeoInit /\ [][RandrNext]_vars

----------------------------------------------------------------------------
(* The order of observations and of updates: SpecOrder                     *)
(*                                                                         *)
(* Windows move and change their titles; every X event the loop observes   *)
(* is numbered, and every update is traced to the observation behind it.   *)

MaxObserved == 3

OrdAnswers == [GeoAnswers EXCEPT !.titles = TrkTitles]

OrdPropertyNotifyEvents == [window : {3, 4}, atom : {"_NET_WM_NAME"}]

\* An update for `context` changes the record of context k.
Covers(context, k) == context = k \/ context = "both"

\* The observation that pushed e into debouncer c, the latest if several did.
CauseOf(c, e) ==
    LET at == { pushed_at[c][i].at : i \in { j \in 1..Len(pushed_at[c]) : pushed_at[c][j].e = e } }
    IN  IF at = {} THEN 0 ELSE CHOOSE n \in at : \A m \in at : m <= n

\* The update of this iteration, if it made one, is caused by observation n.
Emitted(n) ==
    caused_by' = IF ev'.ncalls > 0
                 THEN [k \in {"active", "pointer"} |->
                          IF Covers(reply'.context, k) THEN n ELSE caused_by[k]]
                 ELSE caused_by

OrdPropertyNotify ==
    /\ nobserved < MaxObserved
    /\ \E e \in OrdPropertyNotifyEvents : XPropertyNotify(e, OrdAnswers)
    /\ nobserved' = nobserved + 1
    /\ Emitted(nobserved + 1)
    /\ UNCHANGED <<client_vars, producer_vars, fn_vars, atom_vars, hs, lp, dh, pushed_at>>

OrdConfigureNotify ==
    /\ nobserved < MaxObserved
    /\ \E e \in GeoConfigureNotifyEvents :
          /\ XConfigureNotify(e)
          /\ pushed_at' =
               IF ev'.branch = "push_active"
               THEN [pushed_at EXCEPT !.active = Append(@, [e |-> Moved(e), at |-> nobserved + 1])]
               ELSE IF ev'.branch = "push_pointer"
               THEN [pushed_at EXCEPT !.pointer = Append(@, [e |-> Moved(e), at |-> nobserved + 1])]
               ELSE pushed_at
    /\ nobserved' = nobserved + 1
    /\ UNCHANGED <<client_vars, producer_vars, fn_vars, atom_vars, hs, lp, dh, caused_by>>

OrdActiveDebounced ==
    /\ Debounced("active")
    /\ Emitted(CauseOf("active", Head(deb.active.output)))
    /\ UNCHANGED <<client_vars, producer_vars, fn_vars, atom_vars, hs, lp, dh, nobserved, pushed_at>>

OrdPointerDebounced ==
    /\ Debounced("pointer")
    /\ Emitted(CauseOf("pointer", Head(deb.pointer.output)))
    /\ UNCHANGED <<client_vars, producer_vars, fn_vars, atom_vars, hs, lp, dh, nobserved, pushed_at>>

OrdNext ==
    \/ GeoStartupActive
    \/ GeoStartupPointer
    \/ OrdPropertyNotify
    \/ OrdConfigureNotify
    \/ OrdActiveDebounced
    \/ OrdPointerDebounced
    \/ GeoDebTaskStep
    \/ GeoTick

SpecOrder == GeoInit /\ [][OrdNext]_vars

----------------------------------------------------------------------------
(* calc_window_display applied to window rectangles: SpecCalc              *)

\* Two monitors with a gap between them, and one monitor mirrored by another.
GapMonitors == << XDisplay(STR_DP1, 0, 0, 4, 4), XDisplay(STR_DP2, 6, 0, 4, 4) >>

MirrorMonitors == << XDisplay(STR_DP1, 0, 0, 4, 4), XDisplay(STR_DP2, 0, 0, 4, 4) >>

CalcLayouts == { TwoMonitors, OneMonitor, NoMonitors, GapMonitors, MirrorMonitors }

\* x and y are i16, width and height u16 (x11.rs:478).
CalcXs == { -32768, -2, 0, 3, 32767 }

CalcYs == { -1, 0, 32767 }

CalcWidths == { 0, 1, 4, 32768, 40000, 65535 }

CalcHeights == { 2, 8, 65535 }

CalcInputs ==
    { [fn |-> "calc_window_display", ds |-> ds, x |-> x, y |-> y, w |-> w, h |-> h] :
        ds \in CalcLayouts, x \in CalcXs, y \in CalcYs, w \in CalcWidths, h \in CalcHeights }

CalcIdle ==
    UNCHANGED <<svc_vars, client_vars, deb, producer_vars, x_vars, geo_vars, fn_in,
                order_vars, atom_vars, hs, lp, dh>>

\* The function as a build without overflow checks runs it.
CalcUnchecked ==
    /\ fn_in.fn = "calc_window_display" /\ fn_out = NotApplied
    /\ fn_out' = [done |-> TRUE, panic |-> FALSE,
                  name |-> calc_window_display(fn_in.ds, fn_in.x, fn_in.y, fn_in.w, fn_in.h)]
    /\ CalcIdle

\* The function as a build with overflow checks runs it.
CalcChecked ==
    /\ fn_in.fn = "calc_window_display" /\ fn_out = NotApplied
    /\ fn_out' = IF calc_window_display_panics(fn_in.ds, fn_in.x, fn_in.y, fn_in.w, fn_in.h)
                 THEN [done |-> TRUE, panic |-> TRUE, name |-> <<>>]
                 ELSE [done |-> TRUE, panic |-> FALSE,
                       name |-> calc_window_display(fn_in.ds, fn_in.x, fn_in.y,
                                                    fn_in.w, fn_in.h)]
    /\ CalcIdle

CalcInit ==
    /\ ServiceInit /\ ClientInit /\ DebInit /\ ProducerInit /\ TrackerIdle /\ OrderInit /\ AtomInit /\ HsInit /\ LoopInit /\ HandleInit
    /\ fn_in \in CalcInputs
    /\ fn_out = NotApplied

CalcNext == CalcUnchecked \/ CalcChecked

SpecCalc == CalcInit /\ [][CalcNext]_vars

----------------------------------------------------------------------------
(* get_window_state applied to _NET_WM_STATE replies: SpecState            *)

\* The atoms of _NET_WM_STATE the function looks for, and three it ignores.
StateAtoms == { "FULLSCREEN", "MAXIMIZED_HORZ", "MAXIMIZED_VERT", "HIDDEN", "ABOVE", "STICKY" }

\* The property is absent (or empty, or the request fails), or holds a set of atoms.
StateInputs ==
    { [fn |-> "get_window_state", reply |-> [ok |-> FALSE, atoms |-> {}]] } \cup
    { [fn |-> "get_window_state", reply |-> [ok |-> TRUE, atoms |-> s]] : s \in SUBSET StateAtoms }

StateApply ==
    /\ fn_in.fn = "get_window_state" /\ fn_out = NotApplied
    /\ fn_out' = [done |-> TRUE, state |-> get_window_state(fn_in.reply)]
    /\ UNCHANGED <<svc_vars, client_vars, deb, producer_vars, x_vars, geo_vars, fn_in,
                   order_vars, atom_vars, hs, lp, dh>>

StateInit ==
    /\ ServiceInit /\ ClientInit /\ DebInit /\ ProducerInit /\ TrackerIdle
    /\ OrderInit /\ AtomInit /\ HsInit /\ LoopInit /\ HandleInit
    /\ fn_in \in StateInputs
    /\ fn_out = NotApplied

StateNext == StateApply

SpecState == StateInit /\ [][StateNext]_vars

----------------------------------------------------------------------------
(* A run of the query client: SpecQuery                                    *)

\* Everything but the result of the function under examination stays.
FnFrame ==
    UNCHANGED <<svc_vars, client_vars, deb, producer_vars, x_vars, geo_vars, fn_in,
                order_vars, atom_vars, hs, lp, dh>>

FnInit(inputs) ==
    /\ ServiceInit /\ ClientInit /\ DebInit /\ ProducerInit /\ TrackerIdle
    /\ OrderInit /\ AtomInit /\ HsInit /\ LoopInit /\ HandleInit
    /\ fn_in \in inputs
    /\ fn_out = NotApplied

\* What the client meets: the session bus, the Status property of the daemon
\* ("unreadable" when the read fails), the window property and its
\* conversion, and with --watch, how the stream of changes ends.
QueryInputs ==
    [fn : {"query"}, bus : {"ok", "error"}, status : {"unreadable", "empty", "message"},
     context : {"Active", "Pointer"}, window : {"ok", "error"}, convert : {"ok", "error"},
     watch : BOOLEAN, stream : {"ends", "error"}]

\* query::run (query.rs:265-305) under main (main.rs:30-38): Err(..) leaves
\* with std::process::exit(1), Ok(()) with 0; a non-empty status leaves from
\* inside run with std::process::exit(126).
query_run(q) ==
    IF q.bus = "error" THEN [result |-> "Err", exit |-> 1]
    ELSE IF q.status = "unreadable" THEN [result |-> "Err", exit |-> 1]
    ELSE IF q.status # "empty" THEN [result |-> "exit", exit |-> 126]
    ELSE IF q.window = "error" \/ q.convert = "error" THEN [result |-> "Err", exit |-> 1]
    ELSE IF q.watch /\ q.stream = "error" THEN [result |-> "Err", exit |-> 1]
    ELSE [result |-> "Ok", exit |-> 0]

QueryApply ==
    /\ fn_in.fn = "query" /\ fn_out = NotApplied
    /\ fn_out' = [done |-> TRUE, result |-> query_run(fn_in).result,
                  exit |-> query_run(fn_in).exit]
    /\ FnFrame

QueryNext == QueryApply

SpecQuery == FnInit(QueryInputs) /\ [][QueryNext]_vars

----------------------------------------------------------------------------
(* The choice of the provider: SpecDispatch                                *)

Providers == {"X11", "KWin", "GNOME"}

\* --provider, the three environment variables the detect functions read
\* ("" when unset), and whether the service task sent its handle.
DispatchInputs ==
    [fn : {"dispatch"}, override : Providers \cup {"none"},
     XDG_SESSION_TYPE : {"", "x11", "X11", "wayland"},
     KDE_SESSION_VERSION : {"", "5"},
     XDG_SESSION_DESKTOP : {"", "gnome", "KDE"},
     handle : {"sent", "dropped"}]

\* x11::detect (x11.rs:12-18)
x11_detect(env) == IF env.XDG_SESSION_TYPE = "x11" THEN "X11" ELSE "none"

\* kwin::detect (kwin.rs:8-14)
kwin_detect(env) == IF env.KDE_SESSION_VERSION # "" THEN "KWin" ELSE "none"

\* gnome::detect (gnome.rs:14-20)
gnome_detect(env) == IF env.XDG_SESSION_DESKTOP = "gnome" THEN "GNOME" ELSE "none"

\* Option::or_else
OrElse(a, b) == IF a # "none" THEN a ELSE b

\* A slip: the environment is asked before the override.
select_provider_env_first(env) ==
    OrElse(OrElse(OrElse(x11_detect(env), kwin_detect(env)), gnome_detect(env)), env.override)

\* provider.or_else(x11::detect).or_else(kwin::detect).or_else(gnome::detect)
\* (providers.rs:24-27)
select_provider(env) ==
    OrElse(OrElse(OrElse(env.override, x11_detect(env)), kwin_detect(env)), gnome_detect(env))

\* providers::serve (providers.rs:23-56): the providers it ran, in order, and
\* how it ended.
providers_serve(env) ==
    LET provider == select_provider(env)
    IN  IF provider = "none" THEN [ran |-> <<>>, result |-> "exit126"]
        ELSE IF env.handle = "dropped" THEN [ran |-> <<>>, result |-> "Err"]
        ELSE [ran |-> <<provider>>, result |-> "served"]

DispatchApply ==
    /\ fn_in.fn = "dispatch" /\ fn_out = NotApplied
    /\ fn_out' = [done |-> TRUE, ran |-> providers_serve(fn_in).ran,
                  result |-> providers_serve(fn_in).result]
    /\ FnFrame

DispatchNext == DispatchApply

SpecDispatch == FnInit(DispatchInputs) /\ [][DispatchNext]_vars

----------------------------------------------------------------------------
(* The event mask cascaded over a window tree at startup: SpecCascade      *)
(*                                                                         *)
(* The tree below the root, the windows that carry a WM_CLASS and the      *)
(* window (if any) that is destroyed after its parent listed it and before *)
(* the cascade reaches it are the inputs.                                  *)

TreeWindows == 1..5

Leaves == [w \in TreeWindows |-> <<>>]

\* query_tree(w).children for each window; "root" is x.root.
CascadeTrees ==
    { [root |-> <<1, 5>>, children |-> [Leaves EXCEPT ![1] = <<2, 3>>, ![2] = <<4>>]],
      [root |-> <<1, 5>>, children |-> [Leaves EXCEPT ![1] = <<2, 3, 4>>]],
      [root |-> <<1>>, children |-> [Leaves EXCEPT ![1] = <<2>>, ![2] = <<3, 4>>, ![3] = <<5>>]] }

CascadeInputs ==
    [fn : {"cascade"}, tree : CascadeTrees, classes : SUBSET TreeWindows,
     gone : {0} \cup TreeWindows]

\* X11::is_valid_window (x11.rs:416-424): a WM_CLASS reply of non-zero
\* length; a failed get_property counts as none.
is_valid_window(q, win_id) == win_id # q.gone /\ win_id \in q.classes

RECURSIVE cascade_event_mask(_, _)
RECURSIVE CascadeChildren(_, _)
\* The loop of x11.rs:345-349 over the children still to visit.
CascadeChildren(q, children) ==
    IF children = <<>> THEN [sent |-> {}, r |-> "false"]
    ELSE LET h == cascade_event_mask(q, Head(children))
         IN  IF h.r \in {"Err", "true"} THEN h
             ELSE LET rest == CascadeChildren(q, Tail(children))
                  IN  [sent |-> h.sent \cup rest.sent, r |-> rest.r]

\* X11::cascade_event_mask (x11.rs:333-352): the windows a
\* change_window_attributes request was sent for, and Ok(true), Ok(false) or
\* Err. The request for a destroyed window is sent all the same (its refusal
\* arrives later as an error event); query_tree on it answers with an error.
cascade_event_mask(q, win_id) ==
    IF win_id = 0 THEN [sent |-> {}, r |-> "false"]
    ELSE IF is_valid_window(q, win_id) THEN [sent |-> {win_id}, r |-> "true"]
    ELSE IF win_id = q.gone THEN [sent |-> {win_id}, r |-> "Err"]
    ELSE LET below == CascadeChildren(q, q.tree.children[win_id])
         IN  [sent |-> {win_id} \cup below.sent, r |-> below.r]

RECURSIVE StartupCascade(_, _)
\* The loop of serve over the children of the root (x11.rs:29-31): what each
\* cascade did, in order, until one of them fails.
StartupCascade(q, children) ==
    IF children = <<>> THEN <<>>
    ELSE LET h == cascade_event_mask(q, Head(children))
         IN  IF h.r = "Err" THEN << [from |-> Head(children), sent |-> h.sent, r |-> h.r] >>
             ELSE << [from |-> Head(children), sent |-> h.sent, r |-> h.r] >>
                    \o StartupCascade(q, Tail(children))

CascadeApply ==
    /\ fn_in.fn = "cascade" /\ fn_out = NotApplied
    /\ LET runs == StartupCascade(fn_in, fn_in.tree.root)
       IN  fn_out' = [done |-> TRUE, runs |-> runs,
                      masked |-> UNION { runs[i].sent \ {fn_in.gone} : i \in 1..Len(runs) },
                      result |-> IF runs # <<>> /\ runs[Len(runs)].r = "Err"
                                 THEN "Err" ELSE "Ok"]
    /\ FnFrame

CascadeNext == CascadeApply

SpecCascade == FnInit(CascadeInputs) /\ [][CascadeNext]_vars

----------------------------------------------------------------------------
(* The event loop of the tracker, one await at a time: SpecLoop            *)
(*                                                                         *)
(* serve() is one task: `loop { tokio::select! { ... } }` (x11.rs:52-178).  *)
(* A handler is the body of a select! branch; it awaits its X requests and *)
(* the service call inline. lp.running holds the handlers accepted and not *)
(* yet finished, lp.waiting the X events ready on the connection, lp.dout  *)
(* the outputs waiting in the channel of the Active debouncer. lp.seen is  *)
(* history: the other handlers in progress when a handler last read the    *)
(* records.                                                                *)

MaxArrivals == 3

LoopXEvents == [kind : {"FocusIn", "PropertyNotify"}, window : {3, 4}]

\* Where a burst of moves may end: over DP-2, as the windows are found, or
\* over DP-1.
LoopGeometries == TrkGeometries \cup { [x |-> 0, y |-> 1, width |-> 2, height |-> 2] }

LoopMoves == { [kind |-> "ActiveDebounced", window |-> w, x |-> g.x, y |-> g.y,
                width |-> g.width, height |-> g.height] :
                 w \in {3, 4}, g \in LoopGeometries }

LoopAnswers ==
    [titles |-> TrkTitles, states |-> { [ok |-> FALSE, atoms |-> {}] },
     geometries |-> TrkGeometryReplies]

NoServiceCall == [method |-> "none"]

\* A slip: every event is handled in a task of its own.
LoopAtSelectAnyTime == status = "running"

\* The task is at the select! of x11.rs:53: no handler is in progress.
LoopAtSelect == status = "running" /\ lp.running = <<>>

RemoveAt(seq, i) == SubSeq(seq, 1, i - 1) \o SubSeq(seq, i + 1, Len(seq))

LoopRest == UNCHANGED <<client_vars, deb, producer_vars, displays, conn, ev, geo_vars,
                        fn_vars, order_vars, atom_vars, hs, dh>>

\* The X server delivers an event, or a debouncer completes a burst, at any
\* time; at most MaxArrivals of them in a run.
LoopArrive ==
    /\ lp.arrived < MaxArrivals
    /\ \/ \E e \in LoopXEvents :
            lp' = [lp EXCEPT !.waiting = Append(@, e), !.arrived = @ + 1]
       \/ \E e \in LoopMoves :
            lp' = [lp EXCEPT !.dout = Append(@, e), !.arrived = @ + 1]
    /\ UNCHANGED <<svc_vars, x_active, x_pointer, status>>
    /\ LoopRest

\* The part of a handler that runs before its first await, on event e:
\* the handler it leaves in progress (if any) and the records it leaves.
LoopBegin(e) ==
    CASE e.kind = "FocusIn" ->
            IF e.window = x_active.id \/ e.window = x_active.top_id
            THEN [h |-> <<>>, a |-> x_active, p |-> x_pointer]
            ELSE IF e.window = x_pointer.id \/ e.window = x_pointer.top_id
            THEN [h |-> << [e |-> e, pc |-> "call",
                            call |-> [method |-> "SetWindow", context |-> "active",
                                      window |-> XWindowAsMap(x_pointer)]] >>,
                  a |-> x_pointer, p |-> x_pointer]
            ELSE [h |-> << [e |-> e, pc |-> "queries", call |-> NoServiceCall] >>,
                  a |-> x_active, p |-> x_pointer]
      [] e.kind = "PropertyNotify" ->
            IF e.window # x_active.id /\ e.window # x_pointer.id
            THEN [h |-> <<>>, a |-> x_active, p |-> x_pointer]
            ELSE [h |-> << [e |-> e, pc |-> "queries", call |-> NoServiceCall] >>,
                  a |-> x_active, p |-> x_pointer]
      [] e.kind = "ActiveDebounced" ->
            LET new_display == calc_window_display(displays, e.x, e.y, e.width, e.height)
                ctx == Promote("active")
                a == XWindowUpdate(x_active, [kind |-> "Display", value |-> new_display])
                p == XWindowUpdate(x_pointer, [kind |-> "Display", value |-> new_display])
            IN  IF e.window # x_active.top_id \/ new_display = x_active.display
                THEN [h |-> <<>>, a |-> x_active, p |-> x_pointer]
                ELSE [h |-> << [e |-> e, pc |-> "call",
                                call |-> [method |-> "UpdateWindow", context |-> ctx,
                                          key |-> a.key, value |-> a.value]] >>,
                      a |-> a.w, p |-> IF ctx = "both" THEN p.w ELSE x_pointer]

\* A branch of the select! completes: the loop accepts an X event or a
\* debouncer output and runs its handler up to the first await.
LoopAccept ==
    /\ LoopAtSelect
    /\ \E src \in {"waiting", "dout"} :
          /\ lp[src] # <<>>
          /\ LET b == LoopBegin(Head(lp[src]))
             IN  /\ lp' = [lp EXCEPT ![src] = Tail(@), !.running = @ \o b.h,
                                     !.accepted = @ + 1, !.seen = lp.running]
                 /\ x_active' = b.a
                 /\ x_pointer' = b.p
    /\ UNCHANGED <<svc_vars, status>>
    /\ LoopRest

\* The X requests of handler i are answered; the handler runs on to the await
\* of its service call, or ends.
LoopQueries ==
    \E i \in 1..Len(lp.running) :
      LET h == lp.running[i]
          others == RemoveAt(lp.running, i)
          ends == /\ lp' = [lp EXCEPT !.running = others, !.seen = others]
                  /\ UNCHANGED <<x_active, x_pointer>>
          calls(c) == lp' = [lp EXCEPT !.running[i] = [h EXCEPT !.pc = "call", !.call = c],
                                       !.seen = others]
      IN  /\ h.pc = "queries"
          /\ status = "running"
          /\ UNCHANGED <<svc_vars, status>>
          /\ LoopRest
          /\ IF h.e.kind = "FocusIn"
             THEN LET win_match == Resolved[h.e.window]
                  IN  IF win_match.kind # "some" \/ win_match.id = x_active.id
                      THEN ends
                      ELSE \E title \in LoopAnswers.titles, atoms \in LoopAnswers.states,
                              geometry \in LoopAnswers.geometries :
                             LET window == get_window(displays, h.e.window, win_match,
                                                      title, atoms, geometry)
                             IN  /\ x_active' = window
                                 /\ x_pointer' = x_pointer
                                 /\ calls([method |-> "SetWindow", context |-> "active",
                                           window |-> XWindowAsMap(window)])
             ELSE \E title \in LoopAnswers.titles :
                    LET prop == [kind |-> "Title", value |-> title]
                        context == IF h.e.window = x_active.id /\ title # x_active.title
                                   THEN "active"
                                   ELSE IF h.e.window = x_pointer.id /\ title # x_pointer.title
                                   THEN "pointer" ELSE "none"
                        ctx == Promote(context)
                        a == XWindowUpdate(x_active, prop)
                        p == XWindowUpdate(x_pointer, prop)
                    IN  IF context = "none" THEN ends
                        ELSE /\ x_active' = IF ctx \in {"active", "both"} THEN a.w ELSE x_active
                             /\ x_pointer' = IF ctx \in {"pointer", "both"} THEN p.w ELSE x_pointer
                             /\ calls([method |-> "UpdateWindow", context |-> ctx,
                                       key |-> a.key, value |-> title])

\* The service executes the call of handler i and answers; `?` ends serve()
\* when the call failed, otherwise the loop is back at its select!.
LoopCallDone ==
    \E i \in 1..Len(lp.running) :
      LET h == lp.running[i]
      IN  /\ h.pc = "call"
          /\ status = "running"
          /\ IF h.call.method = "SetWindow"
             THEN SetWindow(h.call.context, h.call.window)
             ELSE UpdateWindow(h.call.context, h.call.key, h.call.value)
          /\ status' = AfterCall
          /\ lp' = [lp EXCEPT !.running = RemoveAt(lp.running, i)]
          /\ UNCHANGED <<x_active, x_pointer>>
          /\ LoopRest

LoopNext == LoopArrive \/ LoopAccept \/ LoopQueries \/ LoopCallDone

\* Startup found no focused window and none under the pointer.
LoopStart ==
    /\ ServiceInit /\ ClientInit /\ AuxIdle /\ DebInit /\ ProducerInit
    /\ x_active = XWindowDefault /\ x_pointer = XWindowDefault
    /\ displays = TwoMonitors /\ status = "running" /\ conn = "up" /\ ev = NoIteration
    /\ quiet = Delay /\ burst = <<>> /\ owed = <<>>

SpecLoop == LoopStart /\ [][LoopNext]_vars

----------------------------------------------------------------------------
(* get_window_match applied to WM_CLASS byte strings: SpecMatch            *)

MaxBytes == 4

\* A letter, a space, the separator and a byte that is no UTF-8.
ClassBytes == {"A", " ", NUL, BadByte}

\* The non-empty byte strings of at most MaxBytes bytes.
MatchInputs ==
    { [fn |-> "match", raw |-> raw] :
        raw \in UNION { [1..n -> ClassBytes] : n \in 1..MaxBytes } }

MatchApply ==
    /\ fn_in.fn = "match" /\ fn_out = NotApplied
    /\ fn_out' = [done |-> TRUE, read |-> read_window_match(3, fn_in.raw)]
    /\ FnFrame

MatchNext == MatchApply

SpecMatch == FnInit(MatchInputs) /\ [][MatchNext]_vars

----------------------------------------------------------------------------
(* The Debouncer dropped while its task runs: SpecDrop                     *)
(*                                                                         *)
(* Dropping the Debouncer drops its fields in order: input_tx, which       *)
(* closes the input channel once the queued values are received, then      *)
(* output_rx, after which output_tx.send fails and the task ignores it.    *)
(* dh.sent lists what the task handed to output_tx.send; dh.cut records    *)
(* that a cycle was ended by the closed input before its timer fired.      *)

DropRest ==
    UNCHANGED <<svc_vars, client_vars, x_vars, geo_vars, fn_vars, order_vars, atom_vars,
                hs, lp>>

\* recv() on the input answers None: the sender is gone and nothing is queued.
InputClosed(d) == dh.tx = "dropped" /\ d.input = <<>>

\* output_tx.send(value) (debouncer.rs:58), its error ignored.
OutputSend(d, value) == IF dh.rx = "held" THEN Append(d.output, value) ELSE d.output

\* Debouncer::push while the handle is held.
DropPush ==
    /\ dh.tx = "held"
    /\ npush < MaxPush
    /\ DebPush("active", npush + 1)
    /\ npush' = npush + 1
    /\ UNCHANGED <<sincePush, bursts, yielded, dh>>
    /\ DropRest

\* Lines 50-58: the timer fires and `last` is sent.
DropTimerFire ==
    /\ deb["active"].pc = "armed"
    /\ deb["active"].timer = 0
    /\ deb' = [deb EXCEPT !["active"].output = OutputSend(deb["active"], deb["active"].last[1]),
                          !["active"].last = <<>>,
                          !["active"].pc = "idle"]
    /\ dh' = [dh EXCEPT !.sent = Append(@, deb["active"].last[1])]
    /\ UNCHANGED producer_vars
    /\ DropRest

\* drop(input_tx): the first field of the Debouncer goes.
DropSender ==
    /\ dh.tx = "held"
    /\ dh' = [dh EXCEPT !.tx = "dropped"]
    /\ UNCHANGED <<deb, producer_vars>>
    /\ DropRest

\* drop(output_rx): the second field goes, with whatever the channel held.
DropReceiver ==
    /\ dh.tx = "dropped" /\ dh.rx = "held"
    /\ dh' = [dh EXCEPT !.rx = "dropped"]
    /\ deb' = [deb EXCEPT !["active"].output = <<>>]
    /\ UNCHANGED producer_vars
    /\ DropRest

\* Line 27: recv() answers None; the while loop and with it the task ends.
DropRecvNoneIdle ==
    /\ deb["active"].pc = "idle"
    /\ InputClosed(deb["active"])
    /\ deb' = [deb EXCEPT !["active"].pc = "ended"]
    /\ UNCHANGED <<producer_vars, dh>>
    /\ DropRest

\* A slip: the closed input ends the task at once, `last` unsent.
DropRecvNoneArmedSilent ==
    /\ deb["active"].pc = "armed"
    /\ InputClosed(deb["active"])
    /\ deb' = [deb EXCEPT !["active"].last = <<>>, !["active"].pc = "ended"]
    /\ dh' = [dh EXCEPT !.cut = @ \/ deb["active"].timer > 0]
    /\ UNCHANGED producer_vars
    /\ DropRest

\* Lines 38-46 and 58: inside a cycle recv() answers None; the inner loop is
\* left, `last` is sent and the task is back at line 27.
DropRecvNoneArmed ==
    /\ deb["active"].pc = "armed"
    /\ InputClosed(deb["active"])
    /\ deb' = [deb EXCEPT !["active"].output = OutputSend(deb["active"], deb["active"].last[1]),
                          !["active"].last = <<>>,
                          !["active"].pc = "idle"]
    /\ dh' = [dh EXCEPT !.sent = Append(@, deb["active"].last[1]),
                        !.cut = @ \/ deb["active"].timer > 0]
    /\ UNCHANGED producer_vars
    /\ DropRest

\* A tick passes when the task has nothing to do.
DropTick ==
    /\ ~(InputClosed(deb["active"]) /\ deb["active"].pc # "ended")
    /\ ProdTick

\* Debouncer::next while the handle is held.
DropNextValue ==
    /\ dh.rx = "held" /\ dh.tx = "held"
    /\ ProdNext

\* What the background task may do.
DropTaskStep ==
    \/ ProdRecvFirst
    \/ ProdRecvMore
    \/ DropTimerFire
    \/ DropRecvNoneIdle
    \/ DropRecvNoneArmed

DropNext ==
    \/ DropPush
    \/ DropSender
    \/ DropReceiver
    \/ DropTick
    \/ DropNextValue
    \/ DropTaskStep

\* The runtime keeps polling the spawned task while it can make a step.
SpecDrop == DebSpecInit /\ [][DropNext]_vars /\ WF_vars(DropTaskStep)

----------------------------------------------------------------------------
(* The service driven by an arbitrary client: SpecSvc                      *)

MaxCalls == 2

\* Two records a well-behaved producer publishes.
SvcDictA ==
    WindowDictNew(<<"7">>, <<"f","x">>, <<"f","i","r","e","f","o","x">>, 42,
                  <<"A">>, "Normal", <<"b","r","o","w","s","e","r">>, "Maximized",
                  <<"D","P","-","1">>)

SvcDictB ==
    WindowDictNew(<<"9">>, <<"t">>, <<"t","e","r","m">>, 0, <<>>, "Dialog", <<>>,
                  "Fullscreen", <<"D","P","-","2">>)

\* The property bags the client sends: well-formed ones, one with a signed
\* negative pid, one with keys missing and a key the service does not know,
\* and ill-typed or ill-named ones.
SvcMaps ==
    { WindowDictAsMap(SvcDictA),
      WindowDictAsMap(SvcDictB),
      [WindowDictAsMap(SvcDictB) EXCEPT !["pid"] = I32Value(-5)],
      [k \in {"id", "title", "bogus"} |-> StrValue(<<"3">>)],
      [WindowDictAsMap(SvcDictA) EXCEPT !["pid"] = StrValue(<<"4","2">>)],
      [WindowDictAsMap(SvcDictA) EXCEPT !["title"] = U32Value(1)],
      [WindowDictAsMap(SvcDictA) EXCEPT !["state"] = StrValue(<<"f","u","l","l">>)],
      [WindowDictAsMap(SvcDictB) EXCEPT !["type"] = StrValue(<<"p","o","p","u","p">>)] }

SvcKeys == DictKeys \cup {"bogus"}

SvcValues == { <<>>, <<"7">>, STR_NORMAL, <<"x">> }

SvcSetWindow ==
    /\ UNCHANGED <<deb, producer_vars, x_vars, geo_vars, aux_vars>>
    /\ ncalls < MaxCalls
    /\ \E context \in WindowContext, window \in SvcMaps : SetWindow(context, window)
    /\ ncalls' = ncalls + 1
    /\ pre_active' = active_window
    /\ pre_pointer' = pointer_window

SvcUpdateWindow ==
    /\ UNCHANGED <<deb, producer_vars, x_vars, geo_vars, aux_vars>>
    /\ ncalls < MaxCalls
    /\ \E context \in WindowContext, key \in SvcKeys, value \in SvcValues :
           UpdateWindow(context, key, value)
    /\ ncalls' = ncalls + 1
    /\ pre_active' = active_window
    /\ pre_pointer' = pointer_window

SvcInit == ServiceInit /\ ClientInit /\ AuxIdle /\ DebInit /\ ProducerInit /\ TrackerIdle

SvcNext == SvcSetWindow \/ SvcUpdateWindow

SpecSvc == SvcInit /\ [][SvcNext]_vars

----------------------------------------------------------------------------
(* The statements of a method call, one at a time: SpecAtomic              *)
(*                                                                         *)
(* set_window and update_window take `&mut self`: while one of them runs,  *)
(* awaiting the emission of a signal included, no getter (`&self`) runs.   *)

AtomMaps ==
    { WindowDictAsMap(SvcDictA), WindowDictAsMap(SvcDictB),
      [WindowDictAsMap(SvcDictA) EXCEPT !["title"] = U32Value(1)] }

AtomKeys == { "title", "pid", "bogus" }

AtomValues == { <<"7">>, <<"x">> }

\* A slip: in the Both arm the first signal is emitted before the second record is written.
ProgramSignalsEarly(context) ==
    CASE context = "both"    -> <<"mut_active", "sig_active", "mut_pointer", "sig_pointer">>
      [] context = "active"  -> <<"mut_active", "sig_active">>
      [] context = "pointer" -> <<"mut_pointer", "sig_pointer">>

\* The statements of an arm of `match context`, in the order of the source
\* (service.rs:73-86, 100-113).
Program(context) ==
    CASE context = "both"    -> <<"mut_active", "mut_pointer", "sig_active", "sig_pointer">>
      [] context = "active"  -> <<"mut_active", "sig_active">>
      [] context = "pointer" -> <<"mut_pointer", "sig_pointer">>

AtomIdle ==
    UNCHANGED <<reply, pre_active, pre_pointer, deb, producer_vars, x_vars, geo_vars,
                fn_vars, order_vars, hs, lp, dh>>

\* A call arrives; one that is refused before the match returns at once.
AtomBegin(method, context, prop, value, dict, accepted) ==
    /\ svc_call.todo = <<>>
    /\ ncalls' = ncalls + 1
    /\ svc_call' = [method |-> method, context |-> context, prop |-> prop, value |-> value,
                    dict |-> dict,
                    todo |-> IF accepted THEN Program(context) ELSE <<>>,
                    result |-> IF accepted THEN "pending" ELSE "error",
                    old_active |-> active_window, old_pointer |-> pointer_window]
    /\ svc_obs' = {}
    /\ UNCHANGED <<active_window, pointer_window>>
    /\ AtomIdle

\* Windows::set_window up to the match: WindowDict::try_from(window)?
AtomSetWindow ==
    /\ ncalls < MaxCalls
    /\ \E context \in WindowContext, window \in AtomMaps :
          LET dict == WindowDictTryFrom(window)
          IN  AtomBegin("SetWindow", context, "ID", <<>>, dict.w, dict.ok)

\* Windows::update_window up to the match.
AtomUpdateWindow ==
    /\ ncalls < MaxCalls
    /\ \E context \in WindowContext, key \in AtomKeys, value \in AtomValues :
          AtomBegin("UpdateWindow", context, WindowPropFromWire(key), value,
                    WindowDictDefault, WindowPropFromWire(key) # "Unknown")

\* What the statements left become once the head has run, or has failed with `?`.
AtomAdvance(ok) ==
    svc_call' = [svc_call EXCEPT
                   !.todo = IF ok THEN Tail(@) ELSE <<>>,
                   !.result = IF ~ok THEN "error"
                              ELSE IF Len(svc_call.todo) = 1 THEN "ok" ELSE @]

\* self.active_window = ... / self.active_window.update(key, value)? and the
\* same for the pointer record.
AtomMutate ==
    /\ svc_call.todo # <<>>
    /\ Head(svc_call.todo) \in {"mut_active", "mut_pointer"}
    /\ LET mine == IF Head(svc_call.todo) = "mut_active" THEN active_window
                                                         ELSE pointer_window
           new == IF svc_call.method = "SetWindow"
                  THEN [ok |-> TRUE, w |-> svc_call.dict]
                  ELSE WindowDictUpdate(mine, svc_call.prop, svc_call.value)
       IN  /\ IF Head(svc_call.todo) = "mut_active"
              THEN active_window' = new.w /\ UNCHANGED pointer_window
              ELSE pointer_window' = new.w /\ UNCHANGED active_window
           /\ AtomAdvance(new.ok)
    /\ UNCHANGED <<ncalls, svc_obs>>
    /\ AtomIdle

\* What a change signal carries, and what a reader then finds in the cache.
Observation(by) ==
    [by |-> by, active |-> active_window, pointer |-> pointer_window]

\* self.active_window_changed(&emitter).await? / self.pointer_window_changed(..)
AtomSignal ==
    /\ svc_call.todo # <<>>
    /\ Head(svc_call.todo) \in {"sig_active", "sig_pointer"}
    /\ svc_obs' = svc_obs \cup
         { Observation(IF Head(svc_call.todo) = "sig_active" THEN "ActiveWindow"
                                                              ELSE "PointerWindow") }
    /\ AtomAdvance(TRUE)
    /\ UNCHANGED <<active_window, pointer_window, ncalls>>
    /\ AtomIdle

\* The emission fails: `?` returns the error, the statements left are skipped.
AtomSignalFails ==
    /\ svc_call.todo # <<>>
    /\ Head(svc_call.todo) \in {"sig_active", "sig_pointer"}
    /\ AtomAdvance(FALSE)
    /\ UNCHANGED <<active_window, pointer_window, ncalls, svc_obs>>
    /\ AtomIdle

\* Windows::active_window / Windows::pointer_window (service.rs:53-61): a
\* getter borrows `&self`, which no running `&mut self` method allows.
AtomRead ==
    /\ svc_call.todo = <<>>
    /\ svc_obs' = svc_obs \cup { Observation("reader") }
    /\ UNCHANGED <<active_window, pointer_window, ncalls, svc_call>>
    /\ AtomIdle

AtomNext ==
    \/ AtomSetWindow
    \/ AtomUpdateWindow
    \/ AtomMutate
    \/ AtomSignal
    \/ AtomSignalFails
    \/ AtomRead

SpecAtomic == SvcInit /\ [][AtomNext]_vars

----------------------------------------------------------------------------
(* The start of the daemon: SpecHandshake                                  *)
(*                                                                         *)
(* daemon::run spawns service::serve(tx) and providers::serve(provider, rx) *)
(* and returns the result of whichever task ends first; main then exits,   *)
(* which stops the other task.                                             *)

MaxWrites == 2

HsIdle ==
    UNCHANGED <<client_vars, deb, producer_vars, x_vars, geo_vars, fn_vars, order_vars,
                atom_vars, lp, dh>>

\* The sender is dropped when service::serve returns without having sent.
TxDropped(chan) == IF chan = "open" THEN "tx_dropped" ELSE chan

\* connection::Builder::session()?.name("org.wctx")?.serve_at("/", application)?
\* .serve_at("/", windows)?.build().await? (service.rs:131-135)
HsSvcBuild ==
    /\ hs.daemon = "running" /\ hs.svc = "start"
    /\ \E ok \in BOOLEAN :
         hs' = IF ok
               THEN [hs EXCEPT !.svc = "built",
                               !.bus = [name |-> TRUE, objects |-> {"Application", "Windows"}]]
               ELSE [hs EXCEPT !.svc = "failed", !.svc_err = "build",
                               !.chan = TxDropped(@)]
    /\ UNCHANGED svc_vars
    /\ HsIdle

\* ApplicationProxy::new(&connection).await?, WindowsProxy::new(..).await?
\* (service.rs:137-140)
HsSvcProxies ==
    /\ hs.daemon = "running" /\ hs.svc = "built"
    /\ \E ok \in BOOLEAN :
         hs' = IF ok
               THEN [hs EXCEPT !.svc = "proxied"]
               ELSE [hs EXCEPT !.svc = "failed", !.svc_err = "proxy",
                               !.chan = TxDropped(@)]
    /\ UNCHANGED svc_vars
    /\ HsIdle

\* tx.send(service): Err once the receiver is gone (service.rs:142-146); then
\* future::pending (service.rs:148).
HsSvcSend ==
    /\ hs.daemon = "running" /\ hs.svc = "proxied"
    /\ hs' = IF hs.chan = "open"
             THEN [hs EXCEPT !.svc = "serving", !.chan = "sent"]
             ELSE [hs EXCEPT !.svc = "failed", !.svc_err = "send"]
    /\ UNCHANGED svc_vars
    /\ HsIdle

\* provider.or_else(x11::detect).or_else(kwin::detect).or_else(gnome::detect),
\* std::process::exit(126) when there is none (providers.rs:23-36).
HsProvDetect ==
    /\ hs.daemon = "running" /\ hs.prov = "detect"
    /\ \E p \in Providers \cup {"none"} :
         hs' = IF p = "none"
               THEN [hs EXCEPT !.provider = p, !.prov = "exited", !.daemon = "exit126"]
               ELSE [hs EXCEPT !.provider = p, !.prov = "await"]
    /\ UNCHANGED svc_vars
    /\ HsIdle

\* A slip: the provider goes on without the handle.
HsProvAwaitSkipped ==
    /\ hs.daemon = "running" /\ hs.prov = "await"
    /\ hs' = IF hs.chan = "tx_dropped"
             THEN [hs EXCEPT !.prov = "failed"]
             ELSE [hs EXCEPT !.prov = "running",
                             !.chan = IF @ = "sent" THEN "taken" ELSE @]
    /\ UNCHANGED svc_vars
    /\ HsIdle

\* let service = rx.await?; (providers.rs:41): the handle once it was sent,
\* an error once the sender was dropped, and no progress before either.
HsProvAwait ==
    /\ hs.daemon = "running" /\ hs.prov = "await"
    /\ hs.chan \in {"sent", "tx_dropped"}
    /\ hs' = IF hs.chan = "sent"
             THEN [hs EXCEPT !.prov = "running", !.chan = "taken"]
             ELSE [hs EXCEPT !.prov = "failed"]
    /\ UNCHANGED svc_vars
    /\ HsIdle

\* x11::serve(&service) publishes through service.windows (x11.rs:259, 276).
HsX11Write ==
    /\ hs.daemon = "running" /\ hs.prov = "running" /\ hs.provider = "X11"
    /\ hs.writes < MaxWrites
    /\ hs' = [hs EXCEPT !.writes = @ + 1]
    /\ \/ \E context \in WindowContext, window \in AtomMaps : SetWindow(context, window)
       \/ \E context \in WindowContext, key \in AtomKeys, value \in AtomValues :
             UpdateWindow(context, key, value)
    /\ HsIdle

\* gnome::serve(&service): service.application.set_status(..).await? and
\* return Ok(()) (gnome.rs:49-51).
HsGnomeStatus ==
    /\ hs.daemon = "running" /\ hs.prov = "running" /\ hs.provider = "GNOME"
    /\ hs.writes < MaxWrites
    /\ hs' = [hs EXCEPT !.writes = @ + 1, !.status = "installed", !.prov = "finished"]
    /\ UNCHANGED svc_vars
    /\ HsIdle

\* The provider returns: Err from any of them, Ok(()) from kwin::serve after
\* wait_for_exit and from gnome::serve (providers.rs:43-53).
HsProvReturns ==
    /\ hs.daemon = "running" /\ hs.prov = "running"
    /\ \E r \in {"failed", "finished"} :
         /\ r = "finished" => hs.provider \in {"KWin", "GNOME"}
         /\ hs' = [hs EXCEPT !.prov = r]
    /\ UNCHANGED svc_vars
    /\ HsIdle

\* tokio::select! over the two tasks (daemon.rs:21-26): the result of one
\* that has ended.
HsDaemonSelect ==
    /\ hs.daemon = "running"
    /\ \/ hs.svc = "failed" /\ hs' = [hs EXCEPT !.daemon = "error"]
       \/ hs.prov = "failed" /\ hs' = [hs EXCEPT !.daemon = "error"]
       \/ hs.prov = "finished" /\ hs' = [hs EXCEPT !.daemon = "ok"]
    /\ UNCHANGED svc_vars
    /\ HsIdle

HsNext ==
    \/ HsSvcBuild
    \/ HsSvcProxies
    \/ HsSvcSend
    \/ HsProvDetect
    \/ HsProvAwait
    \/ HsX11Write
    \/ HsGnomeStatus
    \/ HsProvReturns
    \/ HsDaemonSelect

\* The runtime runs every task that can take a step.
SpecHandshake == SvcInit /\ [][HsNext]_vars /\ WF_vars(HsNext)

----------------------------------------------------------------------------
(* Claims about the service                                                *)

\* What a property bag asks a field to become: the value sent, a signed pid
\* saturated at 0, or the field's default when the key is absent.
Requested(window, k) ==
    IF k \in DOMAIN window
    THEN IF k = "pid" /\ window[k].t = "i"
         THEN U32Value(IF window[k].v < 0 THEN 0 ELSE window[k].v)
         ELSE window[k]
    ELSE IF k = "pid" THEN U32Value(0) ELSE StrValue(<<>>)

Replaced(cached, window) ==
    \A k \in DictKeys : WindowDictAsMap(cached)[k] = Requested(window, k)

\* C3: a successful SetWindow replaces the cached record of the named context
\* wholesale and emits that context's change signal; Both replaces both records
\* with the same record and emits both signals; Active (Pointer) leaves the
\* other record as it was and does not emit the other signal.
C3_SetWindowReplaces ==
    (reply.method = "SetWindow" /\ reply.ok) =>
        CASE reply.context = "both" ->
                /\ Replaced(active_window, reply.window)
                /\ Replaced(pointer_window, reply.window)
                /\ active_window = pointer_window
                /\ reply.signals = <<"ActiveWindow", "PointerWindow">>
          [] reply.context = "active" ->
                /\ Replaced(active_window, reply.window)
                /\ pointer_window = pre_pointer
                /\ reply.signals = <<"ActiveWindow">>
          [] reply.context = "pointer" ->
                /\ Replaced(pointer_window, reply.window)
                /\ active_window = pre_active
                /\ reply.signals = <<"PointerWindow">>

C3_Witness ==
    /\ reply.method = "SetWindow" /\ reply.ok /\ reply.context = "both"
    /\ reply.window = WindowDictAsMap(SvcDictB)
    /\ pre_active = SvcDictA
    /\ pre_pointer = WindowDictDefault
    /\ pointer_window = SvcDictB

\* The integers a pid accepts: decimal digits after an optional plus sign.
\* The empty string is accepted too, as 0 (parse_int_string).
IsIntegerText(value) ==
    \/ value = <<>>
    \/ /\ Len(value) >= 1
       /\ \A i \in 2..Len(value) : value[i] \in {"0","1","2","3","4","5","6","7","8","9"}
       /\ \/ value[1] \in {"0","1","2","3","4","5","6","7","8","9"}
          \/ value[1] = "+" /\ Len(value) >= 2

TypeNames == { WindowTypeToString(t) : t \in WindowType }

StateNames == { WindowStateToString(s) : s \in WindowState }

InvalidUpdate(key, value) ==
    \/ key \notin DictKeys
    \/ key = "pid" /\ ~IsIntegerText(value)
    \/ key = "type" /\ value \notin TypeNames
    \/ key = "state" /\ value \notin StateNames

Selected(context) ==
    CASE context = "both"    -> {"active", "pointer"}
      [] context = "active"  -> {"active"}
      [] context = "pointer" -> {"pointer"}

\* C5: a successful UpdateWindow changes only the field named by key in the
\* record(s) selected by context; the other eight fields of a selected record
\* and every field of a record that is not selected are unchanged.
C5_UpdateTouchesOneField ==
    (reply.method = "UpdateWindow" /\ reply.ok) =>
        /\ reply.key \in DictKeys
        /\ \A k \in DictKeys \ {reply.key} :
              /\ active_window[k] = pre_active[k]
              /\ pointer_window[k] = pre_pointer[k]
        /\ "active" \notin Selected(reply.context) => active_window = pre_active
        /\ "pointer" \notin Selected(reply.context) => pointer_window = pre_pointer

C5_Witness ==
    /\ reply.method = "UpdateWindow" /\ reply.ok /\ reply.context = "pointer"
    /\ reply.key = "role" /\ reply.value = <<"x">>
    /\ pre_pointer = SvcDictA
    /\ pointer_window = [SvcDictA EXCEPT !.role = <<"x">>]
    /\ active_window = SvcDictA

----------------------------------------------------------------------------
(* Claims about the tracker                                                *)

\* The published form of a tracker record, as the service caches it.
Cached(w) == WindowDictTryFrom(XWindowAsMap(w)).w

\* In the formulas below a step is recognised as the work of a handler by
\* the handler's own action formula; a conjunct on ev'.kind placed before it
\* is implied by it and only spares its evaluation on the steps of others.

\* An iteration of the loop that may publish a field update.
FieldUpdateStep ==
    \/ \E e \in PropertyNotifyEvents : XPropertyNotify(e, TrkAnswers)
    \/ Debounced("active")
    \/ Debounced("pointer")

\* C2: while the Active and the Pointer record hold the same window id, every
\* field update the tracker publishes (from a PropertyNotify or from either
\* geometry debouncer) is one UpdateWindow with context Both, which changes
\* both records and emits both change signals.
C2_UpdatesReachBoth ==
    [][ ( /\ x_active.id = x_pointer.id
          /\ reply'.method = "UpdateWindow"
          /\ FieldUpdateStep )
        => ( /\ reply'.context = "both"
             /\ reply'.signals = <<"ActiveWindow", "PointerWindow">> ) ]_vars

FocusFiltered(e) == e.mode # "Normal" \/ e.detail # "NonlinearVirtual"

TargetsActive(e) == e.event = x_active.id \/ e.event = x_active.top_id

TargetsPointer(e) == e.event = x_pointer.id \/ e.event = x_pointer.top_id

\* C6: a FocusIn whose mode is not Normal or whose detail is not
\* NonlinearVirtual changes nothing: both tracker records, the display list
\* and both cached records stay, no request is sent and no method is called.
C6_FilteredFocusInIsInert ==
    [][ \A e \in FocusInEvents :
          ( FocusFiltered(e) /\ ev'.kind = "FocusIn" /\ XFocusIn(e, TrkAnswers) )
          => ( /\ UNCHANGED <<x_active, x_pointer, displays, active_window, pointer_window>>
               /\ UNCHANGED <<status, conn, deb>>
               /\ reply' = NoReply
               /\ ev'.ncalls = 0
               /\ ev'.requests = {} ) ]_vars

C6_Witness ==
    /\ ev.kind = "FocusIn" /\ ev.branch = "filtered"
    /\ x_active.id = 4 /\ x_pointer.id = 3
    /\ reply = NoReply

ChildMaskRequest(w) ==
    [req |-> "ChangeWindowAttributes", window |-> w,
     what |-> {"FOCUS_CHANGE", "ENTER_WINDOW", "PROPERTY_CHANGE"}]

\* C7: a CreateNotify with override_redirect sends no request at all; one
\* without it sends exactly the request installing FOCUS_CHANGE |
\* ENTER_WINDOW | PROPERTY_CHANGE on the created window, and the loop goes on
\* when that request fails (it cannot be sent, or the server refuses it).
\* Either way no record changes and no method is called.
C7_CreateNotifyMask ==
    [][ \A e \in CreateNotifyEvents, o \in CreateOutcomes :
          ( ev'.kind = "CreateNotify" /\ XCreateNotify(e, o) )
          => ( /\ e.override_redirect => ( ev'.requests = {} /\ status' = "running" )
               /\ ~e.override_redirect =>
                    ( /\ ev'.requests = {ChildMaskRequest(e.window)}
                      /\ o \in {"sent", "bad_window", "send_error"} => status' = "running" )
               /\ UNCHANGED <<x_active, x_pointer, displays, active_window, pointer_window>>
               /\ reply' = NoReply ) ]_vars

C7_Witness ==
    /\ ev.kind = "CreateNotify" /\ ev.branch = "send_error"
    /\ ev.requests = {ChildMaskRequest(5)}
    /\ status = "running"

\* C9: a FocusIn (Normal, NonlinearVirtual) on the id or the top-level id of
\* the Pointer record, and on neither of the Active record, makes the Active
\* record equal to the Pointer record, calls SetWindow(Active, that record)
\* once, and sends no request to the X server.
C9_FocusAdoptsPointer ==
    [][ \A e \in FocusInEvents :
          ( /\ ~FocusFiltered(e) /\ ~TargetsActive(e) /\ TargetsPointer(e)
            /\ ev'.kind = "FocusIn"
            /\ XFocusIn(e, TrkAnswers) )
          => ( /\ x_active' = x_pointer
               /\ x_pointer' = x_pointer
               /\ reply'.method = "SetWindow"
               /\ reply'.context = "active"
               /\ reply'.window = XWindowAsMap(x_pointer)
               /\ reply'.ok
               /\ active_window' = Cached(x_pointer)
               /\ pointer_window' = pointer_window
               /\ ev'.ncalls = 1
               /\ ev'.requests = {} ) ]_vars

C9_Witness ==
    /\ ev.kind = "FocusIn" /\ ev.branch = "adopt_pointer"
    /\ x_active = x_pointer
    /\ x_active.id = 3 /\ x_active.top_id = 1
    /\ x_active.title = <<"A">> /\ x_active.state = "Fullscreen"
    /\ reply.method = "SetWindow" /\ reply.context = "active"

\* C10: a FocusIn (Normal, NonlinearVirtual) on a window that is neither
\* record's id or top-level id, and whose subtree resolves to a match with an
\* id other than the Active record's, calls SetWindow(Active, record) exactly
\* once; the record has the id, name and class of the match and the event's
\* window as top-level id, and it becomes the tracker's Active record.
C10_FocusPublishesNewWindow ==
    [][ \A e \in FocusInEvents :
          ( /\ ~FocusFiltered(e) /\ ~TargetsActive(e) /\ ~TargetsPointer(e)
            /\ Resolved[e.event].kind = "some"
            /\ Resolved[e.event].id # x_active.id
            /\ ev'.kind = "FocusIn"
            /\ XFocusIn(e, TrkAnswers) )
          => ( /\ x_active'.id = Resolved[e.event].id
               /\ x_active'.name = Resolved[e.event].name
               /\ x_active'.class = Resolved[e.event].class
               /\ x_active'.top_id = e.event
               /\ x_pointer' = x_pointer
               /\ reply'.method = "SetWindow"
               /\ reply'.context = "active"
               /\ reply'.window = XWindowAsMap(x_active')
               /\ reply'.ok
               /\ reply'.signals = <<"ActiveWindow">>
               /\ active_window' = Cached(x_active')
               /\ pointer_window' = pointer_window
               /\ ev'.ncalls = 1 ) ]_vars

C10_Witness ==
    /\ ev.kind = "FocusIn" /\ ev.branch = "new_window"
    /\ x_active.id = 3 /\ x_active.top_id = 1
    /\ x_active.name = <<"f","x">>
    /\ x_active.class = <<"f","i","r","e","-","f","o","x">>
    /\ x_pointer.id = 4
    /\ reply.method = "SetWindow" /\ reply.context = "active"
    /\ active_window = Cached(x_active)

\* What the Active debouncer owes the loop: its output channel holds last
\* events of completed bursts only, in order and each once; once Delay ticks
\* have passed since the last push it holds all of them; before that the
\* task holds the last push and a timer restarted at that push.
ActiveDebouncerOwes ==
    LET d == deb["active"]
    IN  /\ IsPrefix(d.output, owed)
        /\ (quiet = Delay /\ ~TaskReady(d)) => (d.output = owed /\ d.pc = "idle")
        /\ (quiet < Delay /\ ~TaskReady(d)) =>
              /\ d.pc = "armed"
              /\ d.last = <<burst[Len(burst)]>>
              /\ d.timer = Delay - quiet
              /\ d.output = owed

\* A ConfigureNotify publishes nothing when it arrives; one for the top-level
\* window of the Active record extends the burst and restarts the quiet time.
MoveArrives ==
    \A e \in GeoConfigureNotifyEvents :
        ( ev'.kind = "ConfigureNotify" /\ XConfigureNotify(e) )
        => ( /\ reply' = NoReply
             /\ UNCHANGED <<x_active, x_pointer, active_window, pointer_window>>
             /\ (~e.override_redirect /\ e.window = x_active.top_id) =>
                   ( quiet' = 0 /\ burst'[Len(burst')] = Moved(e) /\ owed' = owed ) )

\* What the loop does with an event of the Active debouncer: the event is the
\* oldest one owed; if its window is still the top-level window of the Active
\* record and its display differs from the record's, one UpdateWindow for
\* "display" with that display, else no call.
MoveDebounced ==
    ( ev'.kind = "Debounced" /\ Debounced("active") )
    => ( /\ owed # <<>>
         /\ owed' = Tail(owed)
         /\ LET e == Head(owed)
                new_display == calc_window_display(displays, e.x, e.y, e.width, e.height)
            IN  IF e.window = x_active.top_id /\ new_display # x_active.display
                THEN /\ reply'.method = "UpdateWindow"
                     /\ reply'.context \in {"active", "both"}
                     /\ reply'.key = "display"
                     /\ reply'.value = new_display
                     /\ reply'.ok
                     /\ ev'.ncalls = 1
                     /\ x_active' = [x_active EXCEPT !.display = new_display]
                     /\ active_window' = Cached(x_active')
                ELSE /\ reply' = NoReply
                     /\ ev'.ncalls = 0
                     /\ UNCHANGED <<x_active, x_pointer, active_window, pointer_window>> )

TitleAnswered(title) == [TrkAnswers EXCEPT !.titles = {title}]

\* C11: a PropertyNotify for _NET_WM_NAME on the id of the Active or the
\* Pointer record, with the title fetched anew, calls UpdateWindow for
\* "title" with that title exactly once if a record holding that id has
\* another title; the context of the call covers every such record and no
\* record of another window, and afterwards every record holding that id,
\* and its cached copy, has the new title. It calls nothing and changes
\* nothing if none differs. A PropertyNotify on any other window, whatever its atom, calls
\* nothing and changes nothing.
C11_TitleChangePublished ==
    [][ \A e \in PropertyNotifyEvents, title \in TrkTitles :
          ( ev'.kind = "PropertyNotify" /\ XPropertyNotify(e, TitleAnswered(title)) )
          => LET onActive == e.window = x_active.id
                 onPointer == e.window = x_pointer.id
                 differs == \/ onActive /\ x_active.title # title
                            \/ onPointer /\ x_pointer.title # title
             IN  IF (onActive \/ onPointer) /\ e.atom = "_NET_WM_NAME" /\ differs
                 THEN /\ reply'.method = "UpdateWindow"
                      /\ reply'.key = "title"
                      /\ reply'.value = title
                      /\ reply'.ok
                      /\ ev'.ncalls = 1
                      /\ (onActive /\ x_active.title # title)
                            => reply'.context \in {"active", "both"}
                      /\ (onPointer /\ x_pointer.title # title)
                            => reply'.context \in {"pointer", "both"}
                      /\ onActive => ( /\ x_active' = [x_active EXCEPT !.title = title]
                                       /\ active_window'.title = title )
                      /\ onPointer => ( /\ x_pointer' = [x_pointer EXCEPT !.title = title]
                                        /\ pointer_window'.title = title )
                      /\ ~onActive => ( /\ reply'.context = "pointer"
                                        /\ x_active' = x_active
                                        /\ active_window' = active_window )
                      /\ ~onPointer => ( /\ reply'.context = "active"
                                         /\ x_pointer' = x_pointer
                                         /\ pointer_window' = pointer_window )
                 ELSE IF e.atom = "_NET_WM_NAME" \/ ~(onActive \/ onPointer)
                 THEN /\ reply' = NoReply
                      /\ ev'.ncalls = 0
                      /\ UNCHANGED <<x_active, x_pointer, displays, active_window,
                                     pointer_window>>
                 ELSE TRUE ]_vars

\* S1: the title of the Active window alone changes from empty to "A".
C11_Witness ==
    /\ ev.kind = "PropertyNotify" /\ ev.branch = "title" /\ ev.ncalls = 1
    /\ reply.method = "UpdateWindow" /\ reply.context = "active"
    /\ reply.key = "title" /\ reply.value = <<"A">>
    /\ x_active.id = 3 /\ x_active.title = <<"A">> /\ active_window.title = <<"A">>
    /\ x_pointer.id = 4

MonitorNames == { displays[i].name : i \in 1..Len(displays) }

\* C12: in every reachable state the display of each published record is
\* empty or the name of a monitor of the tracker's current display list.
C12_DisplayIsCurrentMonitor ==
    \A w \in {active_window, pointer_window} :
        w.display = <<>> \/ w.display \in MonitorNames

\* The indices of the monitors of ds that hold the centre of the rectangle e.
HoldingCentre(ds, e) ==
    { i \in 1..Len(ds) :
        /\ e.x + (e.width \div 2) >= ds[i].x
        /\ e.x + (e.width \div 2) < ds[i].x + ds[i].w
        /\ e.y + (e.height \div 2) >= ds[i].y
        /\ e.y + (e.height \div 2) < ds[i].y + ds[i].h }

\* A RandR notification whose enumeration succeeds replaces the display list
\* and leaves the records, the cache and the debouncers alone.
RandrReplacesList ==
    \A m \in RandrReplies :
        ( ev'.kind = "RandrNotify" /\ m.ok /\ XRandrNotify(m) )
        => /\ displays' = m.monitors
           /\ reply' = NoReply /\ ev'.ncalls = 0
           /\ UNCHANGED <<x_active, x_pointer, active_window, pointer_window, deb>>

\* The display of a debounced event is computed from the display list as it
\* is when the event is taken.
DebouncedUsesCurrentList ==
    \A c \in DebIds :
        ( ev'.kind = "Debounced" /\ Debounced(c) )
        => LET e == Head(deb[c].output)
               mine == IF c = "active" THEN x_active ELSE x_pointer
               hits == HoldingCentre(displays, e)
               name == displays[CHOOSE i \in hits : \A j \in hits : i <= j].name
           IN  ( e.window = mine.top_id /\ hits # {} )
               => /\ c = "active" => (x_active'.display = name /\ active_window'.display = name)
                  /\ c = "pointer" => (x_pointer'.display = name /\ pointer_window'.display = name)
                  /\ IF mine.display # name
                     THEN /\ reply'.method = "UpdateWindow" /\ reply'.key = "display"
                          /\ reply'.value = name /\ reply'.ok /\ ev'.ncalls = 1
                          /\ reply'.context \in {c, "both"}
                     ELSE reply' = NoReply /\ ev'.ncalls = 0

\* C13: a RandR notification replaces the display list with the re-enumerated
\* monitors, changes neither record and publishes nothing; the list changes in
\* no other way, and every debounced geometry event taken afterwards whose
\* centre lies in a monitor of the list leaves that monitor's name published.
C13_RandrThenGeometry ==
    /\ [][RandrReplacesList]_vars
    /\ [][displays' # displays => ev'.kind = "RandrNotify"]_vars
    /\ [][DebouncedUsesCurrentList]_vars

\* After [DP-1, DP-2] became [HDMI-1], a move of the Active window published HDMI-1.
C13_Witness ==
    /\ ev.kind = "Debounced" /\ ev.branch = "active" /\ ev.ncalls = 1
    /\ displays = OneMonitor
    /\ reply.method = "UpdateWindow" /\ reply.key = "display" /\ reply.value = STR_HDMI1
    /\ x_active.display = STR_HDMI1 /\ active_window.display = STR_HDMI1

\* The area a rectangle shares with a display, 0 when they do not overlap.
SharedArea(d, x, y, w, h) ==
    LET dx == Min(x + w, d.x + d.w) - Max(x, d.x)
        dy == Min(y + h, d.y + d.h) - Max(y, d.y)
    IN  IF dx > 0 /\ dy > 0 THEN dx * dy ELSE 0

\* Display affinity in the integers: the first display holding the centre
\* (x + w/2, y + h/2), else the first of those sharing the largest positive
\* area with the rectangle, else "".
DisplayAffinity(ds, x, y, w, h) ==
    LET holding == HoldingCentre(ds, [x |-> x, y |-> y, width |-> w, height |-> h])
        sharing == { i \in 1..Len(ds) : SharedArea(ds[i], x, y, w, h) > 0 }
        most == { i \in sharing : \A j \in sharing :
                    SharedArea(ds[i], x, y, w, h) >= SharedArea(ds[j], x, y, w, h) }
    IN  IF holding # {} THEN ds[CHOOSE i \in holding : \A j \in holding : i <= j].name
        ELSE IF most # {} THEN ds[CHOOSE i \in most : \A j \in most : i <= j].name
        ELSE <<>>

\* C14: for every rectangle with x, y in the i16 range and w, h in the u16
\* range and every display list, calc_window_display returns the first display
\* holding the centre, else the first of those with the largest positive
\* overlap, else the empty name.
C14_DisplayAffinity ==
    ( fn_in.fn = "calc_window_display" /\ fn_out.done )
    => /\ ~fn_out.panic
       /\ fn_out.name = DisplayAffinity(fn_in.ds, fn_in.x, fn_in.y, fn_in.w, fn_in.h)

\* C15: for each context the updates are emitted in the order in which the X
\* events behind them were observed, a coalesced burst counting as its last
\* event: no update is caused by an observation older than the one behind the
\* update emitted before it for the same context.
C15_UpdatesInObservedOrder ==
    [][ \A k \in {"active", "pointer"} : caused_by'[k] >= caused_by[k] ]_vars

\* The two records as the running or last call leaves them when it succeeds.
CallResult ==
    IF svc_call.method = "SetWindow"
    THEN [active |-> IF Covers(svc_call.context, "active")
                     THEN svc_call.dict ELSE svc_call.old_active,
          pointer |-> IF Covers(svc_call.context, "pointer")
                      THEN svc_call.dict ELSE svc_call.old_pointer]
    ELSE [active |-> IF Covers(svc_call.context, "active")
                     THEN WindowDictUpdate(svc_call.old_active, svc_call.prop, svc_call.value).w
                     ELSE svc_call.old_active,
          pointer |-> IF Covers(svc_call.context, "pointer")
                      THEN WindowDictUpdate(svc_call.old_pointer, svc_call.prop, svc_call.value).w
                      ELSE svc_call.old_pointer]

\* C16: whatever a reader or a change signal sees of the cache since a call
\* began is the cache as the call found it or as the call leaves it, never one
\* record new and the other old; a signal is emitted only once all records of
\* the call are written, and while the call runs nothing but its signals sees
\* the cache.
C16_NoHalfUpdatedCache ==
    svc_call.method # "none" =>
      \A o \in svc_obs :
        /\ \/ o.active = svc_call.old_active /\ o.pointer = svc_call.old_pointer
           \/ o.active = CallResult.active /\ o.pointer = CallResult.pointer
        /\ o.by # "reader" => (o.active = CallResult.active /\ o.pointer = CallResult.pointer)
        /\ svc_call.todo # <<>> => o.by # "reader"

\* SetWindow(Both) has replaced two differing records by a third and emitted both signals.
C16_Witness ==
    /\ svc_call.method = "SetWindow" /\ svc_call.context = "both"
    /\ svc_call.todo = <<>> /\ svc_call.result = "ok"
    /\ svc_call.old_active # svc_call.dict /\ svc_call.old_pointer # svc_call.dict
    /\ active_window = svc_call.dict /\ pointer_window = svc_call.dict
    /\ { o.by : o \in svc_obs } = {"ActiveWindow", "PointerWindow", "reader"}

\* The service task has bound the name, registered both objects and sent the handle.
HsReady ==
    /\ hs.bus.name /\ hs.bus.objects = {"Application", "Windows"}
    /\ hs.svc = "serving" /\ hs.chan \in {"sent", "taken"}

\* C17: the provider runs, and writes through the handle, only once the
\* service task has bound the bus name, registered both objects and sent the
\* handle; when the binding fails no handle is sent, no provider runs or
\* writes, and the daemon ends with an error.
C17_ReadinessHandshake ==
    /\ [](( hs.writes > 0 \/ hs.prov \in {"running", "finished"} ) => HsReady)
    /\ [](hs.svc_err = "build" =>
            /\ hs.chan \notin {"sent", "taken"} /\ ~hs.bus.name
            /\ hs.writes = 0 /\ hs.prov \notin {"running", "finished"}
            /\ hs.daemon # "ok")
    /\ (hs.svc_err = "build" ~> hs.daemon \in {"error", "exit126"})

\* The X11 provider has published a record through the handle.
C17_Witness ==
    /\ hs.provider = "X11" /\ hs.writes > 0 /\ HsReady /\ hs.chan = "taken"
    /\ reply.method = "SetWindow" /\ reply.ok
    /\ active_window # WindowDictDefault

\* The entries of a property bag under the nine keys of a record.
KnownKeysOf(map) == [k \in DOMAIN map \cap DictKeys |-> map[k]]

\* The serialised record has the nine keys, strings but for the pid, with the
\* string forms of its type and state, which are empty for None.
NineKeys(w) ==
    LET m == WindowDictAsMap(w)
    IN  /\ DOMAIN m = DictKeys /\ Cardinality(DOMAIN m) = 9
        /\ \A k \in DictKeys \ {"pid"} : m[k].t = "s"
        /\ m["pid"].t = "u"
        /\ m["type"].v = WindowTypeToString(w.type)
        /\ m["state"].v = WindowStateToString(w.state)
        /\ (w.type = "None") <=> (m["type"].v = <<>>)
        /\ (w.state = "None") <=> (m["state"].v = <<>>)

\* C18: after any sequence of SetWindow and UpdateWindow calls each cached
\* record serialises with exactly the nine keys, type and state as strings
\* (empty for None); an accepted SetWindow leaves in the records it covers
\* what the entries under the nine keys alone give, so keys the record does
\* not have add nothing and change nothing.
C18_NineKeysOnly ==
    /\ NineKeys(active_window) /\ NineKeys(pointer_window)
    /\ (reply.method = "SetWindow" /\ reply.ok) =>
          LET known == WindowDictTryFrom(KnownKeysOf(reply.window))
          IN  /\ known.ok
              /\ Covers(reply.context, "active") => active_window = known.w
              /\ Covers(reply.context, "pointer") => pointer_window = known.w

\* A SetWindow whose record has an unknown key and lacks most known ones.
C18_Witness ==
    /\ reply.method = "SetWindow" /\ reply.ok /\ reply.context = "active"
    /\ "bogus" \in DOMAIN reply.window
    /\ active_window = WindowDictNew(<<"3">>, <<>>, <<>>, 0, <<"3">>, "None", <<>>, "None", <<>>)
    /\ pre_active = SvcDictA

\* C19: for every set of atoms in _NET_WM_STATE the derived state is
\* Fullscreen iff the fullscreen atom is present, Maximized iff it is absent
\* and both maximized atoms are present, and Normal otherwise, an absent
\* property included.
C19_StateDerivation ==
    ( fn_in.fn = "get_window_state" /\ fn_out.done )
    => LET atoms == IF fn_in.reply.ok THEN fn_in.reply.atoms ELSE {}
           full == "FULLSCREEN" \in atoms
           both == "MAXIMIZED_HORZ" \in atoms /\ "MAXIMIZED_VERT" \in atoms
       IN  /\ fn_out.state \in {"Fullscreen", "Maximized", "Normal"}
           /\ (fn_out.state = "Fullscreen") <=> full
           /\ (fn_out.state = "Maximized") <=> (~full /\ both)
           /\ (fn_out.state = "Normal") <=> (~full /\ ~both)

\* One maximized atom alone gives Normal.
C19_Witness ==
    /\ fn_in.fn = "get_window_state" /\ fn_out.done
    /\ fn_in.reply.ok /\ fn_in.reply.atoms = {"MAXIMIZED_VERT", "HIDDEN"}
    /\ fn_out.state = "Normal"

\* The cached records of window 4, whose _NET_WM_WINDOW_TYPE atom is outside the map.
OfUnmappedType ==
    { w \in {active_window, pointer_window} : w.id = <<"4">> }

\* C20: a record built for a window whose _NET_WM_WINDOW_TYPE atom is not in
\* the atom-to-type map is published with type None, serialised as the empty
\* string.
C20_UnmappedTypeIsNone ==
    \A w \in OfUnmappedType :
        w.type = "None" /\ WindowDictAsMap(w)["type"] = StrValue(<<>>)

\* C21: the query client exits with 126 when the Status property cannot be
\* read and when it is read non-empty, with 1 for other failures and with 0
\* on success.
C21_QueryExitCodes ==
    ( fn_in.fn = "query" /\ fn_out.done /\ fn_in.bus = "ok" )
    => fn_out.exit =
          IF fn_in.status \in {"unreadable", "message"} THEN 126
          ELSE IF fn_in.window = "error" \/ fn_in.convert = "error"
                  \/ (fn_in.watch /\ fn_in.stream = "error") THEN 1
          ELSE 0

\* The rule of the environment that selects provider p holds.
RuleSelects(p, env) ==
    CASE p = "X11"   -> env.XDG_SESSION_TYPE = "x11"
      [] p = "KWin"  -> env.KDE_SESSION_VERSION # ""
      [] p = "GNOME" -> env.XDG_SESSION_DESKTOP = "gnome"

\* C22: a daemon run runs at most one provider: the requested one when there
\* is an override, otherwise one that a rule of the environment selects; it
\* runs none when no rule selects one, and one whenever a provider is chosen
\* and the handle arrives.
C22_OneProvider ==
    ( fn_in.fn = "dispatch" /\ fn_out.done )
    => LET chosen == fn_in.override # "none" \/ \E p \in Providers : RuleSelects(p, fn_in)
       IN  /\ Len(fn_out.ran) <= 1
           /\ fn_out.ran # <<>> =>
                IF fn_in.override # "none" THEN fn_out.ran[1] = fn_in.override
                ELSE fn_out.ran[1] \in Providers /\ RuleSelects(fn_out.ran[1], fn_in)
           /\ ~chosen => (fn_out.ran = <<>> /\ fn_out.result = "exit126")
           /\ (chosen /\ fn_in.handle = "sent") => Len(fn_out.ran) = 1

\* GNOME is requested on an X11 session with KDE_SESSION_VERSION set.
C22_Witness ==
    /\ fn_in.fn = "dispatch" /\ fn_out.done
    /\ fn_in.override = "GNOME" /\ fn_in.XDG_SESSION_TYPE = "x11"
    /\ fn_in.KDE_SESSION_VERSION = "5" /\ fn_in.handle = "sent"
    /\ fn_out.ran = <<"GNOME">>

\* Debouncer c has taken the value as its newest input, the other inputs kept.
PushedInto(c, value) == deb'[c].input = Append(deb[c].input, value)

\* C23: a ConfigureNotify without override_redirect is pushed into the
\* Pointer debouncer when its window is the Pointer record's top_id and into
\* the Active debouncer when its window is the Active record's top_id, into
\* both when the two top_ids are equal; with override_redirect or for any
\* other window it is pushed into neither.
C23_ConfigureNotifyRouting ==
    [][ \A e \in GeoConfigureNotifyEvents :
           ( ev'.kind = "ConfigureNotify" /\ XConfigureNotify(e) )
           => /\ PushedInto("pointer", Moved(e))
                    <=> (~e.override_redirect /\ e.window = x_pointer.top_id)
              /\ PushedInto("active", Moved(e))
                    <=> (~e.override_redirect /\ e.window = x_active.top_id)
              /\ ~PushedInto("pointer", Moved(e)) => deb'["pointer"] = deb["pointer"]
              /\ ~PushedInto("active", Moved(e)) => deb'["active"] = deb["active"] ]_vars

RECURSIVE ClassLessReach(_, _)
\* w and every descendant of w reachable through windows without WM_CLASS.
ClassLessReach(q, w) ==
    {w} \cup ( IF w \in q.classes THEN {}
               ELSE UNION { ClassLessReach(q, q.tree.children[w][i]) :
                              i \in 1..Len(q.tree.children[w]) } )

\* C24: with every window alive, cascading the mask from a window applies it
\* to that window and to every descendant reachable from it through windows
\* without WM_CLASS, and to no window below a window that has one.
C24_CascadeRule ==
    ( fn_in.fn = "cascade" /\ fn_out.done /\ fn_in.gone = 0 )
    => \A i \in 1..Len(fn_out.runs) :
          fn_out.runs[i].sent = ClassLessReach(fn_in, fn_out.runs[i].from)

RECURSIVE Subtree(_, _)
Subtree(q, w) ==
    {w} \cup UNION { Subtree(q, q.tree.children[w][i]) : i \in 1..Len(q.tree.children[w]) }

\* C25: when a window disappears during the startup cascade, startup does not
\* fail and every window outside the subtree of the missing one gets the mask
\* it would have got had the window stayed.
C25_CascadeSurvivesMissingWindow ==
    ( fn_in.fn = "cascade" /\ fn_out.done /\ fn_in.gone # 0 )
    => LET alive == [fn_in EXCEPT !.gone = 0]
           runs  == StartupCascade(alive, fn_in.tree.root)
           sent  == UNION { runs[i].sent : i \in 1..Len(runs) }
       IN  /\ fn_out.result = "Ok"
           /\ sent \ Subtree(fn_in, fn_in.gone) \subseteq fn_out.masked

\* The EnterNotify names the Pointer record (x11.rs:91).
IdentifiesPointer(e) ==
    e.event = x_pointer.id \/ e.event = x_pointer.top_id \/ e.child = x_pointer.id

\* C26: an EnterNotify on the id or the top-level id of the Active record
\* that does not identify the Pointer record makes the Pointer record a copy
\* of the Active record whose display is computed from the geometry the
\* server answers now and the current monitors, calls SetWindow(Pointer, that
\* record) once, and leaves the Active record as it is.
C26_EnterAdoptsActive ==
    [][ \A e \in EnterNotifyEvents :
          ( /\ ~IdentifiesPointer(e) /\ TargetsActive(e)
            /\ ev'.kind = "EnterNotify"
            /\ XEnterNotify(e, TrkAnswers) )
          => ( /\ \E geometry \in TrkGeometryReplies :
                    x_pointer' = [x_active EXCEPT
                                    !.display = get_window_display(displays, geometry)]
               /\ ev'.requests =
                    {[req |-> "GetGeometry", window |-> x_active.id, what |-> "geometry"]}
               /\ x_active' = x_active
               /\ reply'.method = "SetWindow"
               /\ reply'.context = "pointer"
               /\ reply'.window = XWindowAsMap(x_pointer')
               /\ pointer_window' = Cached(x_pointer')
               /\ active_window' = active_window
               /\ ev'.ncalls = 1 ) ]_vars

\* The pointer entered the Active window after the monitors changed: the
\* Pointer record is the Active record but for the display.
C26_Witness ==
    /\ ev.kind = "EnterNotify" /\ ev.branch = "adopt_active"
    /\ x_active.id = 3
    /\ x_pointer = [x_active EXCEPT !.display = x_pointer.display]
    /\ x_pointer.display # x_active.display
    /\ reply.method = "SetWindow" /\ reply.context = "pointer"

\* C27: no FocusIn calls SetWindow(Active, w) with w.id the id of the Active
\* record held when the event arrived.
C27_FocusNeverRepublishesActiveId ==
    [][ \A e \in FocusInEvents :
          ( /\ ev'.kind = "FocusIn"
            /\ XFocusIn(e, TrkAnswers)
            /\ reply'.method = "SetWindow" /\ reply'.context = "active" )
          => WindowDictTryFrom(reply'.window).w.id # U32ToString(x_active.id) ]_vars

\* C28: the loop accepts an X event or a debouncer output only when no
\* handler is in progress: at most one handler runs at a time, and whenever
\* a handler reads the Active and Pointer records no other handler is
\* between its acceptance and its end.
C28_HandlersSerialized ==
    /\ Len(lp.running) <= 1
    /\ lp.seen = <<>>

\* An X event and a debouncer output wait while the second handler accepted
\* awaits the answer to its service call.
C28_Witness ==
    /\ lp.accepted = 2
    /\ Len(lp.running) = 1 /\ lp.running[1].pc = "call"
    /\ lp.waiting # <<>> \/ lp.dout # <<>>
    /\ x_active.id # 0

RECURSIVE Preorder(_)
RECURSIVE PreorderAll(_)
\* The windows of the subtrees of `children`, each subtree in pre-order.
PreorderAll(children) ==
    IF children = <<>> THEN <<>>
    ELSE Preorder(Head(children)) \o PreorderAll(Tail(children))

\* The subtree of w in pre-order: w, then the subtrees of its children.
Preorder(w) == IF w = 0 THEN <<>> ELSE <<w>> \o PreorderAll(Children(w))

\* WM_CLASS of w is non-empty and reads as instance NUL class NUL.
WellFormedClass(w) ==
    LET raw == WmClassOf(w)
        nuls == { i \in 1..Len(raw) : raw[i] = NUL }
    IN  /\ Cardinality(nuls) = 2
        /\ Len(raw) \in nuls
        /\ \E i \in nuls : 1 < i /\ i + 1 < Len(raw)

\* The first window of the subtree of w, in pre-order, with a well-formed
\* WM_CLASS; 0 when there is none.
FirstWithClass(w) ==
    LET order == Preorder(w)
        hits == { i \in 1..Len(order) : WellFormedClass(order[i]) }
    IN  IF hits = {} THEN 0
        ELSE order[CHOOSE i \in hits : \A j \in hits : i <= j]

\* Both are fixed by the tree and the WM_CLASS properties.
FirstIn == [w \in {0} \cup Windows |-> FirstWithClass(w)]

MatchRead == [w \in Windows |-> get_window_match(w)]

\* The handler left both records alone, called nothing and goes on.
Dropped ==
    /\ UNCHANGED <<x_active, x_pointer, active_window, pointer_window>>
    /\ reply' = NoReply
    /\ ev'.ncalls = 0
    /\ status' = "running"

C30_MatchReadNeverAborts ==
    ( fn_in.fn = "match" /\ fn_out.done )
    => fn_out.read.kind \in {"some", "none"}

\* C31: once the input channel is closed the background task ends (it never
\* stays blocked on the closed input); when it has ended nothing is left in
\* its input or in `last`, the latest value pushed is the last value it
\* handed to the output, and no value was handed over twice.
C31_ClosedInputEndsTask ==
    /\ []( deb["active"].pc = "ended"
           => /\ dh.tx = "dropped"
              /\ deb["active"].input = <<>> /\ deb["active"].last = <<>>
              /\ npush > 0 => ( dh.sent # <<>> /\ dh.sent[Len(dh.sent)] = npush )
              /\ \A i, j \in 1..Len(dh.sent) : i < j => dh.sent[i] < dh.sent[j] )
    /\ ( dh.tx = "dropped" ~> deb["active"].pc = "ended" )

\* The handle was dropped in the middle of a burst: the cycle ended before
\* its timer fired, the pending value 2 was handed to the output and the
\* task has ended.
C31_Witness ==
    /\ deb["active"].pc = "ended"
    /\ dh.cut
    /\ npush = 2
    /\ dh.sent = <<2>>

\* C32: once the GNOME adapter has written its instruction into Status, the
\* daemon keeps serving: the write is never followed by the end of run().
C32_StatusStaysObservable ==
    ( hs.provider = "GNOME" /\ hs.status # "" ) => hs.daemon = "running"

\* The signals the call of this step emitted.
Emits(signal) == \E i \in 1..Len(reply'.signals) : reply'.signals[i] = signal

\* C33: handling a FocusIn changes neither the tracker's Pointer record nor
\* the cached pointer record and emits no PointerWindow signal; handling an
\* EnterNotify changes neither the tracker's Active record nor the cached
\* active record and emits no ActiveWindow signal.
C33_ContextFrame ==
    /\ [][ \A e \in FocusInEvents :
             ( ev'.kind = "FocusIn" /\ XFocusIn(e, TrkAnswers) )
             => ( /\ x_pointer' = x_pointer
                  /\ pointer_window' = pointer_window
                  /\ ~Emits("PointerWindow") ) ]_vars
    /\ [][ \A e \in EnterNotifyEvents :
             ( ev'.kind = "EnterNotify" /\ XEnterNotify(e, TrkAnswers) )
             => ( /\ x_active' = x_active
                  /\ active_window' = active_window
                  /\ ~Emits("ActiveWindow") ) ]_vars

\* An EnterNotify has just published window 4 as Pointer while window 3 is
\* the Active window, on both sides.
C33_Witness ==
    /\ ev.kind = "EnterNotify" /\ ev.branch = "new_window"
    /\ x_pointer.id = 4 /\ x_active.id = 3
    /\ reply.method = "SetWindow" /\ reply.context = "pointer"
    /\ reply.signals = <<"PointerWindow">>
    /\ active_window = Cached(x_active)
    /\ pointer_window = Cached(x_pointer)

\* The context has been published, or the tracker holds a record for it.
Held(cached, record) == cached # WindowDictDefault \/ record # XWindowDefault

\* C34: while the tracker runs, the record the service caches for a context
\* that has been published serialises to the same nine entries as the record
\* the tracker holds for that context.
C34_TrackerCacheAgreement ==
    status \in {"starting", "started", "running"}
    => /\ Held(active_window, x_active)
          => WindowDictAsMap(active_window) = XWindowAsMap(x_active)
       /\ Held(pointer_window, x_pointer)
          => WindowDictAsMap(pointer_window) = XWindowAsMap(x_pointer)

\* A title change of the window that is both Active and Pointer has just
\* been published with one UpdateWindow(Both): both sides hold the new title
\* in both records.
C34_Witness ==
    /\ status = "running"
    /\ reply.method = "UpdateWindow" /\ reply.context = "both" /\ reply.key = "title"
    /\ x_active.id = 3 /\ x_pointer.id = 3
    /\ x_active.title = <<"A">> /\ x_pointer.title = <<"A">>
    /\ WindowDictAsMap(active_window) = XWindowAsMap(x_active)
    /\ WindowDictAsMap(pointer_window) = XWindowAsMap(x_pointer)

\* The record the debouncer of context c belongs to.
RecordOf(c) == IF c = "active" THEN x_active ELSE x_pointer

\* C35: a ConfigureNotify yielded by a debouncer for a window that is not the
\* top-level id of the record of its context is dropped: no record, cached or
\* held by the tracker, changes and no method is called; a display is written
\* only from an event for the top-level id the record has at that moment.
C35_StaleGeometryDiscarded ==
    [][ \A c \in DebIds :
          ( ev'.kind = "Debounced" /\ deb[c].output # <<>> /\ Debounced(c) )
          => LET e == Head(deb[c].output)
             IN  /\ e.window # RecordOf(c).top_id
                    => ( /\ UNCHANGED <<x_active, x_pointer, active_window, pointer_window>>
                         /\ reply' = NoReply
                         /\ ev'.ncalls = 0 )
                 /\ reply'.method = "UpdateWindow" => e.window = RecordOf(c).top_id ]_vars

\* The focus moved from window 3 (top-level 1) to window 4 while a move of
\* window 1 waited in the Active debouncer; the event was yielded and dropped.
C35_Witness ==
    /\ ev.kind = "Debounced" /\ ev.branch = "stale"
    /\ x_active.id = 4
    /\ reply = NoReply
    /\ active_window = Cached(x_active)

\* The keys try_from reads as strings, and the two among them it parses
\* into a variant.
StringKeys == DictKeys \ {"pid"}

\* A record SetWindow must refuse: a string key holding a value that is no
\* string, a pid that is no integer, or a type or state string that names no
\* variant.
IllFormed(window) ==
    \/ \E k \in StringKeys \cap DOMAIN window : window[k].t # "s"
    \/ "pid" \in DOMAIN window /\ window["pid"].t \notin {"i", "u"}
    \/ /\ "type" \in DOMAIN window /\ window["type"].t = "s"
       /\ \A t \in WindowType : WindowTypeToString(t) # window["type"].v
    \/ /\ "state" \in DOMAIN window /\ window["state"].t = "s"
       /\ \A t \in WindowState : WindowStateToString(t) # window["state"].v

\* C36: SetWindow validates before it mutates. A SetWindow whose record has
\* a value of the wrong type for a key, or a type or state string that is
\* not a variant name, is answered with an error, leaves both cached records
\* as they were (also for context Both) and emits no signal.
C36_SetWindowValidatesFirst ==
    ( reply.method = "SetWindow" /\ IllFormed(reply.window) )
    => /\ ~reply.ok
       /\ active_window = pre_active
       /\ pointer_window = pre_pointer
       /\ reply.signals = <<>>

\* Both records hold the first record when a SetWindow for Both arrives with
\* a type that names no variant: it is refused and both records stay.
C36_Witness ==
    /\ reply.method = "SetWindow" /\ reply.context = "both" /\ ~reply.ok
    /\ reply.window = [WindowDictAsMap(SvcDictB) EXCEPT !["type"] = StrValue(<<"p","o","p","u","p">>)]
    /\ IllFormed(reply.window)
    /\ pre_active = SvcDictA /\ pre_pointer = SvcDictA
    /\ active_window = SvcDictA /\ pointer_window = SvcDictA
    /\ reply.signals = <<>>

====
